---------------------------- MODULE Spec2Model ----------------------------
(***************************************************************************)
(* Model of the computational core of vifdk: tokens and token amounts,     *)
(* ticks and the tick/price law, market fees and the market-order          *)
(* simulator (lib/token.ts, lib/tick.ts, lib/utils.ts, lib/market.ts,      *)
(* lib/simulation.ts).                                                     *)
(*                                                                         *)
(* The source computes on unbounded integers (bigint) and range-checks     *)
(* them against 256, 128, 64 and 48 bit widths.  TLC's integers are 32     *)
(* bits wide, so every width is kept as a named width but scaled down:     *)
(*     AMOUNT_BITS        16   (256 in the source)                         *)
(*     PRICE_BITS         15   (128 in the source, the 128.128 format)     *)
(*     OFFER_AMOUNT_BITS   8   (48 in the source)                          *)
(*     UNITS_BITS          4   (64 in the source)                          *)
(* The scaled widths keep the source's order                               *)
(*     OFFER_AMOUNT_BITS + UNITS_BITS < AMOUNT_BITS,                       *)
(* and the tick-law constants are the leading PRICE_BITS bits of the       *)
(* source's 128-bit constants.  FEES_BITS, FEE_DENOMINATOR, MIN_TICK,      *)
(* MAX_TICK and the tick-spacing range are the source's own values.        *)
(***************************************************************************)
EXTENDS Integers, Sequences, FiniteSets, TLC

(***************************************************************************)
(* Constants of lib/constants.ts and lib/market.ts                         *)
(***************************************************************************)
MAX_TICK == 8388607
MIN_TICK == -8388607
OFFER_AMOUNT_BITS == 8
UNITS_BITS == 4
FEES_BITS == 16
AMOUNT_BITS == 16
PRICE_BITS == 15
MAX_TICK_SPACING == 65535
MIN_TICK_SPACING == 1
FEE_DENOMINATOR == 1000000

(***************************************************************************)
(* Bounds of the model                                                     *)
(***************************************************************************)
MaxOffers == 3

(***************************************************************************)
(* bigint arithmetic: `/` and `%` truncate toward zero                     *)
(***************************************************************************)
Abs(a) == IF a < 0 THEN -a ELSE a

BigDiv(a, b) ==
    IF (a >= 0) = (b > 0) THEN Abs(a) \div Abs(b) ELSE -(Abs(a) \div Abs(b))

BigMod(a, b) == a - b * BigDiv(a, b)

Min(a, b) == IF a < b THEN a ELSE b

(***************************************************************************)
(* Outcome of a call: a returned value or a thrown error                   *)
(***************************************************************************)
Ok(v) == [err |-> "none", val |-> <<v>>]

Throw(e) == [err |-> e, val |-> <<>>]

IsOk(r) == r.err = "none"

Val(r) == r.val[1]

Bind(r, F(_)) == IF IsOk(r) THEN F(Val(r)) ELSE r

\* an optional value (`T | undefined`)
None == <<>>

Some(x) == <<x>>

(***************************************************************************)
(* lib/utils.ts                                                            *)
(***************************************************************************)
checkFitsWithin(amount, maxBits) ==
    IF amount < 0 THEN FALSE ELSE amount % (2 ^ maxBits) = amount

\* divUp rounding toward zero instead of up
divUp_floor(a, b) == BigDiv(a, b)

\* (a + b - 1n) / b
divUp(a, b) == BigDiv(a + b - 1, b)

\* mulDivUp rounding toward zero instead of up
mulDivUp_floor(a, b, denominator) == BigDiv(a * b, denominator)

\* divUp(a * b, denominator)
mulDivUp(a, b, denominator) == divUp(a * b, denominator)

(***************************************************************************)
(* lib/token.ts: Token                                                     *)
(***************************************************************************)
Token_new(address, decimals, symbol, unit) ==
    IF ~checkFitsWithin(unit, UNITS_BITS)
    THEN Throw("UnitOverflowError")
    ELSE Ok([address |-> address, decimals |-> decimals,
             symbol |-> symbol, unit |-> unit])

Token_from(address, decimals, symbol, unit) ==
    Token_new(address, decimals, symbol, unit)

Token_withUnit(token, unit) ==
    Token_new(token.address, token.decimals, token.symbol, unit)

\* isAddressEqual compares the 160-bit values; addresses are modelled by value
isAddressEqual(a, b) == a = b

\* equals without the comparison of unit
Token_equals_noUnit(this, other) ==
    /\ isAddressEqual(this.address, other.address)
    /\ this.decimals = other.decimals
    /\ this.symbol = other.symbol

Token_equals(this, other) ==
    /\ isAddressEqual(this.address, other.address)
    /\ this.decimals = other.decimals
    /\ this.symbol = other.symbol
    /\ this.unit = other.unit

(***************************************************************************)
(* lib/token.ts: TokenAmount, a record [amount, token]                     *)
(***************************************************************************)
\* the setter without the truncation to a multiple of the unit
TokenAmount_setAmount_noTrunc(this, amount) ==
    IF ~checkFitsWithin(amount, AMOUNT_BITS)
    THEN Throw("TokenAmountOverflowError")
    ELSE Ok([this EXCEPT !.amount = amount])

\* set amount(amount); `amount % 0n` throws a RangeError (division by zero)
TokenAmount_setAmount(this, amount) ==
    IF ~checkFitsWithin(amount, AMOUNT_BITS)
    THEN Throw("TokenAmountOverflowError")
    ELSE IF this.token.unit = 0
    THEN Throw("RangeError")
    ELSE Ok([this EXCEPT !.amount = amount - BigMod(amount, this.token.unit)])

\* get normalizedAmount()
TokenAmount_normalizedAmount(this) == BigDiv(this.amount, this.token.unit)

\* set normalizedAmount(amount)
TokenAmount_setNormalizedAmount(this, amount) ==
    TokenAmount_setAmount(this, amount * this.token.unit)

\* the private constructor: the parameter property, then the setter
TokenAmount_new(amount, token) ==
    TokenAmount_setAmount([amount |-> amount, token |-> token], amount)

\* TokenAmount.from / Token.amount with a bigint
Token_amount(token, amount) == TokenAmount_new(amount, token)

TokenAmount_copy(this) == TokenAmount_new(this.amount, this.token)

\* a.copy() that returns this
copy_returnsThis(h, this) == [heap |-> h, made |-> this]

\* a.copy() that hands back a itself
copy_sameObject(h, this) == [heap |-> h, made |-> this]

\* a.copy() among the TokenAmounts h: a new TokenAmount, made by the constructor
copy(h, this) ==
    LET r == TokenAmount_copy(h[this])
    IN  IF IsOk(r) THEN [heap |-> Append(h, Val(r)), made |-> Len(h) + 1]
        ELSE [heap |-> h, made |-> 0]

(***************************************************************************)
(* lib/tick.ts: Tick, a record [value, tickSpacing]                        *)
(***************************************************************************)
Market_checkTickSpacing(tickSpacing) ==
    tickSpacing >= MIN_TICK_SPACING /\ tickSpacing <= MAX_TICK_SPACING

Tick_checkTick(tick) == tick >= MIN_TICK /\ tick <= MAX_TICK

\* the setter with a division that rounds down instead of toward zero
Tick_setValue_floor(this, tick) ==
    LET t == this.tickSpacing * (tick \div this.tickSpacing)
    IN  IF ~Tick_checkTick(t)
        THEN Throw("TickOverflowError")
        ELSE Ok([this EXCEPT !.value = t])

\* set value(tick)
Tick_setValue(this, tick) ==
    LET t == this.tickSpacing * BigDiv(tick, this.tickSpacing)
    IN  IF ~Tick_checkTick(t)
        THEN Throw("TickOverflowError")
        ELSE Ok([this EXCEPT !.value = t])

\* the private constructor
Tick_new(tick, tickSpacing) ==
    IF ~Market_checkTickSpacing(tickSpacing)
    THEN Throw("TickSpacingOverflowError")
    ELSE Tick_setValue([value |-> 0, tickSpacing |-> tickSpacing], tick)

Tick_fromValue(tick, tickSpacing) == Tick_new(tick, tickSpacing)

Tick_MAX_TICK(tickSpacing) == Tick_new(MAX_TICK, tickSpacing)

(***************************************************************************)
(* tickToPrice: the leading PRICE_BITS bits of the 23 tick-law constants   *)
(***************************************************************************)
TickLaw ==
    << 32767, 32767, 32766, 32765, 32762, 32757, 32747, 32726, 32684, 32600,
       32434, 32103, 31452, 30190, 27816, 23612, 17015, 8835, 2382, 173,
       0, 0, 0 >>

\* the lines `if ((absTick & 2^k) !== 0n) price = (price * c_k) >> 128n` for
\* k = 1..22; bits is absTick >> k
RECURSIVE TickLawFrom(_, _, _)
TickLawFrom(bits, k, price) ==
    IF k > 22 THEN price
    ELSE TickLawFrom(bits \div 2, k + 1,
             IF bits % 2 = 1
             THEN (price * TickLaw[k + 1]) \div (2 ^ PRICE_BITS)
             ELSE price)

\* tickToPrice with the inversion rounded up instead of down
tickToPrice_invertUp(tick) ==
    LET absTick == IF tick < 0 THEN -tick ELSE tick
        price0 == IF absTick % 2 = 1 THEN TickLaw[1] ELSE 2 ^ PRICE_BITS
        price == TickLawFrom(absTick \div 2, 1, price0)
    IN  IF tick > 0 THEN divUp(2 ^ (2 * PRICE_BITS), price) ELSE price

\* tickToPrice(tick)
tickToPrice(tick) ==
    LET absTick == IF tick < 0 THEN -tick ELSE tick
        price0 == IF absTick % 2 = 1 THEN TickLaw[1] ELSE 2 ^ PRICE_BITS
        price == TickLawFrom(absTick \div 2, 1, price0)
    IN  IF tick > 0 THEN BigDiv(2 ^ (2 * PRICE_BITS), price) ELSE price

\* the getter's cache update with the price of the tick's magnitude
Tick_price_cache_unsigned(cache, value) ==
    IF value \in DOMAIN cache /\ cache[value] # 0
    THEN cache
    ELSE [k \in DOMAIN cache \cup {value} |->
             IF k = value THEN tickToPrice(Abs(value)) ELSE cache[k]]

\* the memoized price map after `get price()` of a tick of this value
Tick_price_cache(cache, value) ==
    IF value \in DOMAIN cache /\ cache[value] # 0
    THEN cache
    ELSE [k \in DOMAIN cache \cup {value} |->
             IF k = value THEN tickToPrice(value) ELSE cache[k]]

\* get price()
Tick_price(cache, value) ==
    IF value \in DOMAIN cache /\ cache[value] # 0
    THEN cache[value]
    ELSE tickToPrice(value)

(***************************************************************************)
(* lib/offer.ts and lib/tick.ts: inboundFromOutbound                       *)
(***************************************************************************)
Offer_checkOfferAmount(amount) == checkFitsWithin(amount, OFFER_AMOUNT_BITS)

inboundFromOutbound(price, outbound, outboundUnit, inboundUnit) ==
    LET inbound == divUp(divUp(outbound * outboundUnit * price, 2 ^ PRICE_BITS),
                         inboundUnit)
    IN  IF ~Offer_checkOfferAmount(inbound)
        THEN Throw("OfferAmountOverflowError")
        ELSE Ok(inbound)

\* Tick.inboundFromOutbound(outbound, inbound)
Tick_inboundFromOutbound(cache, this, outbound, inbound) ==
    Bind(Token_amount(inbound, 0), LAMBDA result:
    Bind(inboundFromOutbound(Tick_price(cache, this.value),
                             TokenAmount_normalizedAmount(outbound),
                             outbound.token.unit, inbound.unit),
         LAMBDA n: TokenAmount_setNormalizedAmount(result, n)))

(***************************************************************************)
(* lib/market.ts: Market, a record [base, quote, tickSpacing, askFees,     *)
(* bidsFees]; a SemiMarket is a Market and a side ba                       *)
(***************************************************************************)
\* checkFees that rejects the largest fee
Market_checkFees_exclusive(fees) == checkFitsWithin(fees + 1, FEES_BITS)

Market_checkFees(fees) == checkFitsWithin(fees, FEES_BITS)

\* `this.askFees ?? 0`
OrZero(fees) == IF fees = None THEN 0 ELSE fees[1]

\* _computeFees with the rate taken on the gross amount: fees / FEE_DENOMINATOR
Market_computeFees_grossRate(feeToken, amount, fees, maxAmount) ==
    IF \/ ~isAddressEqual(amount.token.address, feeToken.address)
       \/ /\ maxAmount # None
          /\ ~isAddressEqual(maxAmount[1].token.address, feeToken.address)
    THEN Throw("InvalidTokenError")
    ELSE LET computedFees == BigDiv(amount.amount * fees, FEE_DENOMINATOR)
         IN  IF maxAmount # None /\ maxAmount[1].amount < amount.amount
             THEN Throw("MaxAmountLowerThanAmountError")
             ELSE Bind(Token_withUnit(feeToken, 1), LAMBDA t:
                  Token_amount(t,
                      IF maxAmount # None
                      THEN Min(maxAmount[1].amount - amount.amount, computedFees)
                      ELSE computedFees))

\* _computeFees without the cap of maxAmount
Market_computeFees_uncapped(feeToken, amount, fees, maxAmount) ==
    IF \/ ~isAddressEqual(amount.token.address, feeToken.address)
       \/ /\ maxAmount # None
          /\ ~isAddressEqual(maxAmount[1].token.address, feeToken.address)
    THEN Throw("InvalidTokenError")
    ELSE IF maxAmount # None /\ maxAmount[1].amount < amount.amount
    THEN Throw("MaxAmountLowerThanAmountError")
    ELSE Bind(Token_withUnit(feeToken, 1), LAMBDA t:
         Token_amount(t, BigDiv(amount.amount * fees, FEE_DENOMINATOR - fees)))

\* Market._computeFees(feeToken, amount, fees, maxAmount?)
Market_computeFees(feeToken, amount, fees, maxAmount) ==
    IF \/ ~isAddressEqual(amount.token.address, feeToken.address)
       \/ /\ maxAmount # None
          /\ ~isAddressEqual(maxAmount[1].token.address, feeToken.address)
    THEN Throw("InvalidTokenError")
    ELSE LET computedFees ==
                 BigDiv(amount.amount * fees, FEE_DENOMINATOR - fees)
         IN  IF maxAmount # None /\ maxAmount[1].amount < amount.amount
             THEN Throw("MaxAmountLowerThanAmountError")
             ELSE Bind(Token_withUnit(feeToken, 1), LAMBDA t:
                  Token_amount(t,
                      IF maxAmount # None
                      THEN LET maxFees == maxAmount[1].amount - amount.amount
                           IN  IF maxFees < computedFees THEN maxFees
                               ELSE computedFees
                      ELSE computedFees))

\* _excludingFees with the net amount rounded up instead of down
Market_excludingFees_up(amount, feeToken, fees) ==
    IF ~isAddressEqual(amount.token.address, feeToken.address)
    THEN Throw("InvalidTokenError")
    ELSE Bind(TokenAmount_copy(amount), LAMBDA result:
         TokenAmount_setNormalizedAmount(result,
             divUp(TokenAmount_normalizedAmount(amount)
                       * (FEE_DENOMINATOR - fees),
                   FEE_DENOMINATOR)))

\* Market._excludingFees(amount, feeToken, fees)
Market_excludingFees(amount, feeToken, fees) ==
    IF ~isAddressEqual(amount.token.address, feeToken.address)
    THEN Throw("InvalidTokenError")
    ELSE Bind(TokenAmount_copy(amount), LAMBDA result:
         TokenAmount_setNormalizedAmount(result,
             BigDiv(TokenAmount_normalizedAmount(amount)
                        * (FEE_DENOMINATOR - fees),
                    FEE_DENOMINATOR)))

\* get outboundToken() / get inboundToken() of a SemiMarket
SemiMarket_outboundToken(ba, market) ==
    IF ba = "asks" THEN market.base ELSE market.quote

SemiMarket_inboundToken(ba, market) ==
    IF ba = "asks" THEN market.quote ELSE market.base

\* SemiMarket.computeFees -> Market.computeAskFees / computeBidFees
SemiMarket_computeFees(ba, market, amount, maxAmount) ==
    IF ba = "asks"
    THEN Market_computeFees(market.quote.token, amount,
                            OrZero(market.askFees), maxAmount)
    ELSE Market_computeFees(market.base.token, amount,
                            OrZero(market.bidsFees), maxAmount)

\* SemiMarket.excludingFees -> Market.excludingAskFees / excludingBidFees
SemiMarket_excludingFees(ba, market, amount) ==
    IF ba = "asks"
    THEN Market_excludingFees(amount, market.quote.token,
                              OrZero(market.askFees))
    ELSE Market_excludingFees(amount, market.base.token,
                              OrZero(market.bidsFees))

\* set askFees(fees) / set bidsFees(fees): `fees && !checkFees(fees)`
Market_setFees(market, side, fees) ==
    IF fees # None /\ fees[1] # 0 /\ ~Market_checkFees(fees[1])
    THEN Throw("FeesOverflowError")
    ELSE Ok(IF side = "asks" THEN [market EXCEPT !.askFees = fees]
            ELSE [market EXCEPT !.bidsFees = fees])

\* the private constructor
Market_new(base, quote, tickSpacing) ==
    IF ~Market_checkTickSpacing(tickSpacing)
    THEN Throw("TickSpacingOverflowError")
    ELSE Ok([base |-> base, quote |-> quote, tickSpacing |-> tickSpacing,
             askFees |-> None, bidsFees |-> None])

\* Market._createSingle with base and quote given as Tokens
Market_createSingle(base, quote, tickSpacing, askFees, bidsFees) ==
    Bind(Token_amount(base, base.unit), LAMBDA b:
    Bind(Token_amount(quote, quote.unit), LAMBDA q:
    Bind(Market_new(b, q, tickSpacing), LAMBDA m0:
    Bind(IF askFees # None THEN Market_setFees(m0, "asks", askFees)
         ELSE Ok(m0), LAMBDA m1:
         IF bidsFees # None THEN Market_setFees(m1, "bids", bidsFees)
         ELSE Ok(m1)))))

(***************************************************************************)
(* lib/simulation.ts                                                       *)
(***************************************************************************)
\* Token.PROVISION_TOKEN = NATIVE_TOKEN.withUnit(10n ** 9n), the unit scaled
PROVISION_UNIT == 10

NATIVE_TOKEN == Val(Token_from(0, 18, "ETH", 1))

PROVISION_TOKEN == Val(Token_withUnit(NATIVE_TOKEN, PROVISION_UNIT))

\* the OrderResult a walk starts from
InitialResult(ba, market) ==
    LET inTok  == SemiMarket_inboundToken(ba, market).token
        outTok == SemiMarket_outboundToken(ba, market).token
    IN  [gave   |-> Val(Token_amount(inTok, 0)),
         got    |-> Val(Token_amount(outTok, 0)),
         fee    |-> Val(Token_amount(Val(Token_withUnit(inTok, 1)), 0)),
         bounty |-> Val(Token_amount(PROVISION_TOKEN, 0))]

\* default parameters: maxTick = Tick.MAX_TICK(market.market.tickSpacing)
MaxTickOr(maxTickArg, market) ==
    IF maxTickArg = None THEN Val(Tick_MAX_TICK(market.tickSpacing))
    ELSE maxTickArg[1]

\* provision = Token.PROVISION_TOKEN.amount(0n)
ProvisionOr(provisionArg) ==
    IF provisionArg = None THEN Val(Token_amount(PROVISION_TOKEN, 0))
    ELSE provisionArg[1]

\* the break taken at maxTick too
TickExceeds_ge(tick, maxTick) == tick.value >= maxTick.value

\* offer.tick.value > maxTick.value
TickExceeds(tick, maxTick) == tick.value > maxTick.value

\* offer.expiry && date >= offer.expiry
IsExpired(offer, date) == offer.expiry # None /\ date >= offer.expiry[1]

\* result.bounty.amount += fromOffer > provision.amount ? provision.amount : fromOffer
ExpiredBounty(bounty, offer, provision) ==
    LET fromOffer == IF offer.provision = None THEN 0
                     ELSE offer.provision[1].amount
    IN  TokenAmount_setAmount(bounty,
            bounty.amount + (IF fromOffer > provision.amount
                             THEN provision.amount ELSE fromOffer))

\* what one pass of the loop body leaves: how the pass ended (flow: continue |
\* break | throw), which branch it took (kind), and the walk's locals
Pass(flow, kind, err, remaining, result) ==
    [flow |-> flow, kind |-> kind, err |-> err,
     remaining |-> remaining, result |-> result]

Locals(remaining, result) == [remaining |-> remaining, result |-> result]

\* exact in, the offer is covered: lines 71-73
ExactIn_full(remaining, result, offer, wants) ==
    Bind(TokenAmount_setAmount(result.gave,
                               result.gave.amount + wants.amount), LAMBDA gave:
    Bind(TokenAmount_setAmount(result.got,
                               result.got.amount + offer.gives.amount), LAMBDA got:
    Bind(TokenAmount_setAmount(remaining,
                               remaining.amount - wants.amount), LAMBDA rem:
         Ok(Locals(rem, [result EXCEPT !.gave = gave, !.got = got])))))

\* the received amount rounded up instead of down
ExactIn_receivedNormalized_up(remaining, offer, wants) ==
    mulDivUp(TokenAmount_normalizedAmount(offer.gives),
             TokenAmount_normalizedAmount(remaining),
             TokenAmount_normalizedAmount(wants))

\* (offer.gives.normalizedAmount * excludingFees.normalizedAmount) / wants.normalizedAmount
ExactIn_receivedNormalized(remaining, offer, wants) ==
    BigDiv(TokenAmount_normalizedAmount(offer.gives)
               * TokenAmount_normalizedAmount(remaining),
           TokenAmount_normalizedAmount(wants))

\* exact in, the offer is not covered and something is received: lines 79-81
ExactIn_partial(remaining, result, receivedNormalized) ==
    Bind(TokenAmount_setNormalizedAmount(result.got,
             TokenAmount_normalizedAmount(result.got) + receivedNormalized),
         LAMBDA got:
    Bind(TokenAmount_setAmount(result.gave,
                               result.gave.amount + remaining.amount), LAMBDA gave:
    Bind(TokenAmount_setAmount(remaining, 0), LAMBDA rem:
         Ok(Locals(rem, [result EXCEPT !.gave = gave, !.got = got])))))

\* the pass a branch's outcome makes
PassOf(out, flow, kind, remaining, result) ==
    IF IsOk(out)
    THEN Pass(flow, kind, "none", Val(out).remaining, Val(out).result)
    ELSE Pass("throw", kind, out.err, remaining, result)

\* one pass of the loop of _simulateExactIn: lines 57-82
ExactIn_body(ba, market, cache, remaining, result, offer, maxTick, date, provision) ==
    IF remaining.amount = 0
    THEN Pass("break", "exhausted", "none", remaining, result)
    ELSE IF TickExceeds(offer.tick, maxTick)
    THEN Pass("break", "maxTick", "none", remaining, result)
    ELSE LET w == Tick_inboundFromOutbound(cache, offer.tick, offer.gives,
                      SemiMarket_inboundToken(ba, market).token)
         IN  IF ~IsOk(w)
             THEN Pass("throw", "wants", w.err, remaining, result)
             ELSE IF IsExpired(offer, date)
             THEN PassOf(Bind(ExpiredBounty(result.bounty, offer, provision),
                              LAMBDA b: Ok(Locals(remaining,
                                           [result EXCEPT !.bounty = b]))),
                         "continue", "expired", remaining, result)
             ELSE IF remaining.amount >= Val(w).amount
             THEN PassOf(ExactIn_full(remaining, result, offer, Val(w)),
                         "continue", "full", remaining, result)
             ELSE LET receivedNormalized ==
                          ExactIn_receivedNormalized(remaining, offer, Val(w))
                  IN  IF receivedNormalized = 0
                      THEN Pass("break", "nothing", "none", remaining, result)
                      ELSE PassOf(ExactIn_partial(remaining, result,
                                                  receivedNormalized),
                                  "continue", "partial", remaining, result)

\* whether a pass of _simulateExactIn reads offer.tick.price
ExactIn_readsPrice(remaining, offer, maxTick) ==
    remaining.amount # 0 /\ ~TickExceeds(offer.tick, maxTick)

\* exact out, the offer taken whole without the local amount going down
ExactOut_full_keepsAmount(remaining, result, offer, wants) ==
    Bind(TokenAmount_setAmount(result.gave,
                               result.gave.amount + wants.amount), LAMBDA gave:
    Bind(TokenAmount_setAmount(result.got,
                               result.got.amount + offer.gives.amount), LAMBDA got:
         Ok(Locals(remaining, [result EXCEPT !.gave = gave, !.got = got]))))

\* exact out, the offer is taken whole: lines 127-129
ExactOut_full(remaining, result, offer, wants) ==
    Bind(TokenAmount_setAmount(result.gave,
                               result.gave.amount + wants.amount), LAMBDA gave:
    Bind(TokenAmount_setAmount(result.got,
                               result.got.amount + offer.gives.amount), LAMBDA got:
    Bind(TokenAmount_setAmount(remaining,
                               remaining.amount - offer.gives.amount), LAMBDA rem:
         Ok(Locals(rem, [result EXCEPT !.gave = gave, !.got = got])))))

\* exact out, the offer is taken in part: lines 131-137
ExactOut_partial(remaining, result, offer, wants) ==
    Bind(TokenAmount_setNormalizedAmount(result.gave,
             TokenAmount_normalizedAmount(result.gave)
               + mulDivUp(TokenAmount_normalizedAmount(wants),
                          TokenAmount_normalizedAmount(remaining),
                          TokenAmount_normalizedAmount(offer.gives))),
         LAMBDA gave:
    Bind(TokenAmount_setAmount(result.got,
                               result.got.amount + remaining.amount), LAMBDA got:
    Bind(TokenAmount_setAmount(remaining, 0), LAMBDA rem:
         Ok(Locals(rem, [result EXCEPT !.gave = gave, !.got = got])))))

\* one pass of the loop of _simulateExactOut: lines 113-138
ExactOut_body(ba, market, cache, remaining, result, offer, maxTick, date, provision) ==
    IF remaining.amount = 0
    THEN Pass("break", "exhausted", "none", remaining, result)
    ELSE IF TickExceeds(offer.tick, maxTick)
    THEN Pass("break", "maxTick", "none", remaining, result)
    ELSE IF IsExpired(offer, date)
    THEN PassOf(Bind(ExpiredBounty(result.bounty, offer, provision),
                     LAMBDA b: Ok(Locals(remaining,
                                  [result EXCEPT !.bounty = b]))),
                "continue", "expired", remaining, result)
    ELSE LET w == Tick_inboundFromOutbound(cache, offer.tick, offer.gives,
                      SemiMarket_inboundToken(ba, market).token)
         IN  IF ~IsOk(w)
             THEN Pass("throw", "wants", w.err, remaining, result)
             ELSE IF remaining.amount >= offer.gives.amount
             THEN PassOf(ExactOut_full(remaining, result, offer, Val(w)),
                         "continue", "full", remaining, result)
             ELSE PassOf(ExactOut_partial(remaining, result, offer, Val(w)),
                         "continue", "partial", remaining, result)

\* whether a pass of _simulateExactOut reads offer.tick.price
ExactOut_readsPrice(remaining, offer, maxTick, date) ==
    /\ remaining.amount # 0
    /\ ~TickExceeds(offer.tick, maxTick)
    /\ ~IsExpired(offer, date)

\* simulate: which walk runs, or the InvalidTokenError: lines 151-160
simulate_mode(amount, ba, market) ==
    IF Token_equals(amount.token, SemiMarket_inboundToken(ba, market).token)
    THEN "exactIn"
    ELSE IF Token_equals(amount.token, SemiMarket_outboundToken(ba, market).token)
    THEN "exactOut"
    ELSE "InvalidTokenError"

(***************************************************************************)
(* State                                                                   *)
(***************************************************************************)
VARIABLES
    market,         \* simulate's params.market.market
    ba,             \* the side of params.market
    amount,         \* params.amount, as the caller made it
    paramsAmount,   \* params.amount, as it is now
    maxTick,        \* params.maxTick (None: undefined)
    date,           \* params.date
    provision,      \* params.provision (None: undefined)
    pc,             \* where the call is: call | loop | body | break | returned | thrown
    mode,           \* the walk simulate chose: none | exactIn | exactOut
    err,            \* the error thrown, or "none"
    remaining,      \* the local excludingFees (exact in) or amount copy (exact out)
    result,         \* the local result
    n,              \* offers the loop has taken from params.offers
    offer,          \* the loop variable (None outside the loop body)
    last,           \* the branch the last pass of the loop took
    given,          \* what the live offers within maxTick handed to the
                    \* exact-out walk give in total
    memoizedPrice,  \* Tick.memoizedPrice
    tick,           \* a Tick held by a caller (None before one is made)
    tickOp,         \* the last construction of or assignment to a Tick
    heap,           \* the TokenAmounts that exist
    amountOp,       \* the last operation on a TokenAmount
    copyOf,         \* for each TokenAmount, the one copy() made it from (0: none)
    ifoIn,          \* the arguments of a call of inboundFromOutbound
    ifoOut,         \* what the call left (None before it)
    args,           \* the arguments of a call of a pure function
    ret,            \* what that call left (None before it)
    mkt,            \* a Market held by a caller (None before one is made)
    mktOp,          \* the last creation of or fee assignment to a Market
    priceOp,        \* the last read of Tick.price
    actions,        \* the action list of a VifRouterActionsBuilder
    buildOp         \* the last call on the builder

simInputs == <<market, ba, amount, maxTick, date, provision>>

simVars ==
    <<simInputs, paramsAmount, pc, mode, err, remaining, result, n, offer, last,
      given, memoizedPrice>>

tickVars == <<tick, tickOp>>

amountVars == <<heap, amountOp, copyOf>>

ifoVars == <<ifoIn, ifoOut>>

callVars == <<args, ret>>

marketVars == <<mkt, mktOp>>

builderVars == <<actions, buildOp>>

\* the state outside the simulation, the Tick, the TokenAmounts and the
\* conversion
restVars == <<callVars, marketVars, priceOp, builderVars>>

vars == <<simVars, tickVars, amountVars, ifoVars, restVars>>

(***************************************************************************)
(* Inputs of the simulation                                                *)
(***************************************************************************)
\* <<outbound unit of asks (base), inbound unit of asks (quote)>>
SimUnits == { <<1, 1>>, <<2, 3>> }

\* <<askFees, bidsFees>>
SimFees == { <<None, Some(65535)>>, <<Some(3000), None>> }

\* WETH/USDC markets, and a market whose base and quote are one token
SimMarkets ==
    { Val(Market_createSingle(Val(Token_from(1, 18, "WETH", u[1])),
                              Val(Token_from(2, 6, "USDC", u[2])),
                              1, f[1], f[2])) : u \in SimUnits, f \in SimFees }
    \cup
    { Val(Market_createSingle(Val(Token_from(1, 18, "WETH", 1)),
                              Val(Token_from(1, 18, "WETH", 1)),
                              1, Some(3000), None)) }

\* the tokens an amount is given in: the two of the market, and tokens that
\* differ from the inbound one in one field
SimTokens(b, m) ==
    LET i == SemiMarket_inboundToken(b, m).token
        o == SemiMarket_outboundToken(b, m).token
    IN  { i, o, [i EXCEPT !.unit = i.unit + 1], [i EXCEPT !.symbol = "DAI"],
          [i EXCEPT !.decimals = 8], [i EXCEPT !.address = 3] }

SimAmountsNormalized == {0, 2, 300}

SimAmounts(b, m) ==
    { Val(Token_amount(t, a * t.unit)) :
          t \in SimTokens(b, m), a \in SimAmountsNormalized }

SimTicks == {-65536, 0, 131072}

SimMaxTicks(m) ==
    {None} \cup { Some(Val(Tick_fromValue(0, m.tickSpacing))) }

SimDates == {2}

SimExpiries == {None, Some(2), Some(3)}

SimGives == {3, 100}

\* the global provision of a call: none, one unit, or more than half of what
\* an amount holds
SimGlobalProvisions ==
    {None} \cup { Some(Val(Token_amount(PROVISION_TOKEN, k * PROVISION_UNIT))) :
                      k \in {1, 3277} }

\* an offer's provision: none, or one unit, or as much as a large global
\* provision
SimProvisions(global) ==
    {None} \cup (IF global # None /\ global[1].amount > PROVISION_UNIT
                 THEN {global}
                 ELSE { Some(Val(Token_amount(PROVISION_TOKEN, PROVISION_UNIT))) })

\* a SimpleOfferData of an offer list of the market: gives is an amount of the
\* outbound token, as Offer.fromPacked makes it
SimOffer(b, m, g, t, e, p) ==
    [gives     |-> Val(Token_amount(SemiMarket_outboundToken(b, m).token,
                           g * SemiMarket_outboundToken(b, m).token.unit)),
     tick      |-> Val(Tick_fromValue(t, m.tickSpacing)),
     expiry    |-> e,
     provision |-> p]

\* no Tick, no TokenAmount and no conversion outside the simulation
NoTick == tick = None /\ tickOp = None

NoAmount == heap = <<>> /\ amountOp = None /\ copyOf = <<>>

NoConversion == ifoIn = None /\ ifoOut = None

NoCall == args = None /\ ret = None

NoMarket == mkt = None /\ mktOp = None

NoPriceRead == priceOp = None

NoBuilder == actions = <<>> /\ buildOp = None

NoRest == NoCall /\ NoMarket /\ NoPriceRead /\ NoBuilder

Init ==
    /\ NoTick /\ NoAmount /\ NoConversion /\ NoRest
    /\ market \in SimMarkets
    /\ ba \in {"asks", "bids"}
    /\ amount \in SimAmounts(ba, market)
    /\ paramsAmount = amount
    /\ maxTick \in SimMaxTicks(market)
    /\ date \in SimDates
    /\ provision \in SimGlobalProvisions
    /\ pc = "call"
    /\ mode = "none"
    /\ err = "none"
    /\ remaining = amount
    /\ result = InitialResult(ba, market)
    /\ n = 0
    /\ offer = None
    /\ last = "none"
    /\ given = 0
    /\ memoizedPrice = [k \in {} |-> 0]

(***************************************************************************)
(* simulate, then _simulateExactIn or _simulateExactOut up to its loop     *)
(***************************************************************************)
\* the TokenAmount the walk writes to (excludingFees of line 54, amount of
\* line 110) is made by copy(); it is params.amount itself if copy() hands
\* back the TokenAmount it is called on
LocalIsParams == copy(<<paramsAmount>>, 1).made = 1

Simulate ==
    /\ pc = "call"
    /\ LET m == simulate_mode(paramsAmount, ba, market)
           start == IF m = "exactIn"
                    THEN SemiMarket_excludingFees(ba, market, paramsAmount)
                    ELSE TokenAmount_copy(paramsAmount)
       IN  IF m = "InvalidTokenError"
           THEN /\ pc' = "thrown"
                /\ err' = "InvalidTokenError"
                /\ UNCHANGED <<mode, remaining, paramsAmount>>
           ELSE IF ~IsOk(start)
           THEN /\ pc' = "thrown"
                /\ err' = start.err
                /\ mode' = m
                /\ UNCHANGED <<remaining, paramsAmount>>
           ELSE /\ pc' = "loop"
                /\ mode' = m
                /\ remaining' = Val(start)
                /\ paramsAmount' = IF LocalIsParams THEN Val(start)
                                   ELSE paramsAmount
                /\ UNCHANGED err
    /\ result' = InitialResult(ba, market)
    /\ UNCHANGED <<simInputs, n, offer, last, given, memoizedPrice>>
    /\ UNCHANGED <<tickVars, amountVars, ifoVars, restVars>>

\* for (const offer of offers): the loop takes the next offer of params.offers
NextOffer ==
    /\ pc = "loop"
    /\ n < MaxOffers
    /\ \E g \in SimGives, t \in SimTicks, e \in SimExpiries, p \in SimProvisions(provision) :
           offer' = Some(SimOffer(ba, market, g, t, e, p))
    /\ pc' = "body"
    /\ n' = n + 1
    /\ UNCHANGED <<simInputs, paramsAmount, mode, err, remaining, result, last,
                   given, memoizedPrice>>
    /\ UNCHANGED <<tickVars, amountVars, ifoVars, restVars>>

\* what a pass of the loop body leaves
TakePass(p, readsPrice) ==
    /\ pc' = CASE p.flow = "continue" -> "loop"
               [] p.flow = "break" -> "break"
               [] OTHER -> "thrown"
    /\ err' = p.err
    /\ remaining' = p.remaining
    /\ paramsAmount' = IF LocalIsParams THEN p.remaining ELSE paramsAmount
    /\ result' = p.result
    /\ last' = p.kind
    /\ given' = IF /\ mode = "exactOut"
                   /\ offer[1].tick.value <= MaxTickOr(maxTick, market).value
                   /\ offer[1].expiry = None \/ offer[1].expiry[1] > date
                THEN given + offer[1].gives.amount
                ELSE given
    /\ offer' = None
    /\ memoizedPrice' = IF readsPrice
                        THEN Tick_price_cache(memoizedPrice, offer[1].tick.value)
                        ELSE memoizedPrice
    /\ UNCHANGED <<simInputs, mode, n>>
    /\ UNCHANGED <<tickVars, amountVars, ifoVars, restVars>>

\* the loop body of _simulateExactIn on the offer taken
ExactInPass ==
    /\ pc = "body" /\ mode = "exactIn"
    /\ TakePass(ExactIn_body(ba, market, memoizedPrice, remaining, result,
                             offer[1], MaxTickOr(maxTick, market), date,
                             ProvisionOr(provision)),
                ExactIn_readsPrice(remaining, offer[1],
                                   MaxTickOr(maxTick, market)))

\* the loop body of _simulateExactOut on the offer taken
ExactOutPass ==
    /\ pc = "body" /\ mode = "exactOut"
    /\ TakePass(ExactOut_body(ba, market, memoizedPrice, remaining, result,
                              offer[1], MaxTickOr(maxTick, market), date,
                              ProvisionOr(provision)),
                ExactOut_readsPrice(remaining, offer[1],
                                    MaxTickOr(maxTick, market), date))

\* result.fee = market.computeFees(result.gave, amount): line 85
ExactIn_fee(b, m, res, amt) == SemiMarket_computeFees(b, m, res.gave, Some(amt))

\* result.fee = market.computeFees(result.gave): line 141
ExactOut_fee(b, m, res) == SemiMarket_computeFees(b, m, res.gave, None)

\* the loop is over (a break, or no offer is left): the fee, and the return
Return ==
    /\ pc \in {"loop", "break"}
    /\ LET fee == IF mode = "exactIn"
                  THEN ExactIn_fee(ba, market, result, paramsAmount)
                  ELSE ExactOut_fee(ba, market, result)
       IN  IF IsOk(fee)
           THEN /\ pc' = "returned"
                /\ result' = [result EXCEPT !.fee = Val(fee)]
                /\ UNCHANGED err
           ELSE /\ pc' = "thrown"
                /\ err' = fee.err
                /\ UNCHANGED result
    /\ UNCHANGED <<simInputs, paramsAmount, mode, remaining, n, offer, last,
                   given, memoizedPrice>>
    /\ UNCHANGED <<tickVars, amountVars, ifoVars, restVars>>

Next == Simulate \/ NextOffer \/ ExactInPass \/ ExactOutPass \/ Return

Spec == Init /\ [][Next]_vars

(***************************************************************************)
(* Properties of the simulation                                            *)
(***************************************************************************)
\* the loop body is about to run on the offer taken
InBody == pc = "body"

\* the pass gets past the two breaks at the top of the loop body
Reached(o) ==
    /\ remaining.amount # 0
    /\ o.tick.value <= MaxTickOr(maxTick, market).value

Expired(o) == o.expiry # None /\ o.expiry[1] <= date

Live(o) == ~Expired(o)

GlobalProvision == IF provision = None THEN 0 ELSE provision[1].amount

OfferProvision(o) ==
    IF o.provision = None THEN 0 ELSE o.provision[1].amount

InUnit == SemiMarket_inboundToken(ba, market).token.unit

OutUnit == SemiMarket_outboundToken(ba, market).token.unit

\* the inbound amount the offer wants for its gives
Wants(o) ==
    Val(Tick_inboundFromOutbound(memoizedPrice, o.tick, o.gives,
                                 SemiMarket_inboundToken(ba, market).token))

FeeRate == IF ba = "asks" THEN OrZero(market.askFees)
           ELSE OrZero(market.bidsFees)

TradeUnchanged ==
    /\ result'.gave = result.gave
    /\ result'.got = result.got
    /\ remaining' = remaining

\* C1: in both modes an expired offer adds min(offer.provision, global
\* provision - bounty so far) to bounty and leaves gave, got and the remaining
\* amount alone, so the bounty never exceeds the global provision.
C1_ExpiredAddsWithinBudget ==
    [][LET o == offer[1]
         IN  InBody /\ Reached(o) /\ Expired(o) /\ pc' # "thrown"
             => /\ result'.bounty.amount
                      = result.bounty.amount
                          + Min(OfferProvision(o),
                                GlobalProvision - result.bounty.amount)
                /\ result'.bounty.amount <= GlobalProvision
                /\ TradeUnchanged]_vars

\* C2 as stated: in exact in, a live offer within maxTick is taken whole while
\* the remaining input covers its wants; the first offer it does not cover
\* adds floor(gives_n * remaining_n / wants_n) to got and the whole remaining
\* input to gave, and nothing is consumed after it.
C2_PartialSpendsRemaining ==
    [][LET o == offer[1]
         IN  InBody /\ mode = "exactIn" /\ Reached(o) /\ Live(o) /\ pc' # "thrown"
             => IF remaining.amount >= Wants(o).amount
                THEN /\ result'.got.amount = result.got.amount + o.gives.amount
                     /\ result'.gave.amount = result.gave.amount + Wants(o).amount
                     /\ remaining'.amount = remaining.amount - Wants(o).amount
                ELSE /\ result'.got.amount
                           = result.got.amount
                               + OutUnit * (((o.gives.amount \div OutUnit)
                                               * (remaining.amount \div InUnit))
                                            \div (Wants(o).amount \div InUnit))
                     /\ result'.gave.amount
                           = result.gave.amount + remaining.amount
                     /\ remaining'.amount = 0]_vars

\* C2: in exact in, a live offer within maxTick is taken whole while the
\* remaining input covers its wants; at the first offer it does not cover,
\* with r = floor(gives_n * remaining_n / wants_n): if r >= 1 got grows by r
\* and gave by the whole remaining input, if r = 0 neither changes and the
\* walk stops; either way no later offer is consumed.
C2_ExactInConsumption ==
    [][/\ LET o == offer[1]
                r == ((o.gives.amount \div OutUnit)
                         * (remaining.amount \div InUnit))
                     \div (Wants(o).amount \div InUnit)
            IN  InBody /\ mode = "exactIn" /\ Reached(o) /\ Live(o) /\ pc' # "thrown"
                => IF remaining.amount >= Wants(o).amount
                   THEN /\ result'.got.amount
                              = result.got.amount + o.gives.amount
                        /\ result'.gave.amount
                              = result.gave.amount + Wants(o).amount
                        /\ remaining'.amount
                              = remaining.amount - Wants(o).amount
                        /\ pc' = "loop"
                   ELSE IF r = 0
                   THEN TradeUnchanged /\ pc' = "break"
                   ELSE /\ result'.got.amount = result.got.amount + OutUnit * r
                        /\ result'.gave.amount
                              = result.gave.amount + remaining.amount
                        /\ remaining'.amount = 0
       /\ mode = "exactIn" /\ last \in {"partial", "nothing"}
            => /\ result'.gave = result.gave /\ result'.got = result.got
               /\ pc' # "loop"]_vars

\* an exact-in walk has taken an offer whole and then one in part
C2_Witness ==
    /\ mode = "exactIn" /\ last = "partial" /\ n >= 2
    /\ remaining.amount = 0
    /\ result.got.amount > 0

\* C3: in both modes the walk stops at the first offer whose tick is above
\* maxTick: that offer and all after it add nothing to gave, got or bounty,
\* while an offer at maxTick is still taken.
C3_StopsAboveMaxTick ==
    [][/\ LET o == offer[1]
                maxT == IF maxTick = None THEN MAX_TICK ELSE maxTick[1].value
            IN  InBody /\ remaining.amount # 0
                => /\ o.tick.value > maxT
                        => pc' = "break" /\ result' = result
                   /\ o.tick.value = maxT /\ Live(o) /\ pc' # "thrown"
                        /\ (mode = "exactIn" => remaining.amount >= Wants(o).amount)
                        => result'.got.amount
                              = result.got.amount
                                  + (IF mode = "exactOut"
                                     THEN Min(o.gives.amount, remaining.amount)
                                     ELSE o.gives.amount)
                   /\ o.tick.value = maxT /\ Expired(o) /\ pc' # "thrown"
                        => pc' = "loop"
       /\ pc = "break"
            => /\ pc' \in {"returned", "thrown"}
               /\ result'.gave = result.gave /\ result'.got = result.got
               /\ result'.bounty = result.bounty]_vars

\* a walk that consumed an offer stopped at one above maxTick
C3_Witness ==
    /\ pc = "break" /\ last = "maxTick"
    /\ maxTick # None
    /\ result.got.amount > 0

\* C4: after an exact-in walk fee = min(floor(gave * feeRate / (1000000 -
\* feeRate)), amount - gave), so gave + fee <= amount, and the cap never
\* throws MaxAmountLowerThanAmountError.
C4_ExactInFee ==
    /\ mode = "exactIn" => err # "MaxAmountLowerThanAmountError"
    /\ mode = "exactIn" /\ pc = "returned"
         => /\ result.fee.amount
                  = Min((result.gave.amount * FeeRate)
                            \div (FEE_DENOMINATOR - FeeRate),
                        amount.amount - result.gave.amount)
            /\ result.gave.amount + result.fee.amount <= amount.amount

\* an exact-in walk returned with a positive fee at the highest fee rate
C4_Witness ==
    /\ mode = "exactIn" /\ pc = "returned"
    /\ FeeRate = 65535
    /\ result.gave.amount > 0 /\ result.fee.amount > 0

\* C5: in exact out, when the remaining output is below a live offer's gives,
\* gave grows by ceil(wants_n * remaining_n / gives_n) normalized units, got
\* by exactly the remaining output, and nothing is consumed afterwards.
C5_ExactOutPartialRoundsUp ==
    [][/\ LET o == offer[1]
                owed == (Wants(o).amount \div InUnit)
                            * (remaining.amount \div OutUnit)
                g_n == o.gives.amount \div OutUnit
                paid == (result'.gave.amount - result.gave.amount) \div InUnit
            IN  InBody /\ mode = "exactOut" /\ Reached(o) /\ Live(o) /\ pc' # "thrown"
                    /\ remaining.amount < o.gives.amount
                => /\ result'.gave.amount = result.gave.amount + paid * InUnit
                   /\ paid * g_n >= owed
                   /\ (paid - 1) * g_n < owed
                   /\ result'.got.amount = result.got.amount + remaining.amount
                   /\ remaining'.amount = 0
       /\ mode = "exactOut" /\ last = "partial"
            => /\ result'.gave = result.gave /\ result'.got = result.got
               /\ result'.bounty = result.bounty
               /\ pc' # "loop"]_vars

\* an exact-out walk took part of an offer
C5_Witness ==
    /\ mode = "exactOut" /\ last = "partial"
    /\ remaining.amount = 0
    /\ result.gave.amount > 0

\* the four fields Token.equals compares
SameToken(a, b) ==
    /\ a.address = b.address /\ a.decimals = b.decimals
    /\ a.symbol = b.symbol /\ a.unit = b.unit

\* C6: simulate walks exact in exactly when amount.token equals the inbound
\* token, exact out exactly when it equals the outbound and not the inbound
\* token, and otherwise throws InvalidTokenError and returns nothing; tokens
\* are equal when address, decimals, symbol and unit all match.
C6_SimulateDispatch ==
    LET isIn  == SameToken(amount.token, SemiMarket_inboundToken(ba, market).token)
        isOut == SameToken(amount.token, SemiMarket_outboundToken(ba, market).token)
    IN  pc # "call"
        => /\ mode = "exactIn" <=> isIn
           /\ mode = "exactOut" <=> ~isIn /\ isOut
           /\ err = "InvalidTokenError" <=> ~isIn /\ ~isOut
           /\ ~isIn /\ ~isOut => pc = "thrown" /\ mode = "none" /\ n = 0

\* simulate threw InvalidTokenError for an amount whose token differs from the
\* inbound token in its unit only
C6_Witness ==
    /\ pc = "thrown" /\ err = "InvalidTokenError"
    /\ amount.token = [SemiMarket_inboundToken(ba, market).token
                           EXCEPT !.unit = amount.token.unit]

\* C7: in both modes an expired offer is skipped before its wants is
\* computed, so it never makes simulate throw OfferAmountOverflowError.
C7_ExpiredNeverOverflows ==
    [][LET o == offer[1]
         IN  InBody /\ Reached(o) /\ Expired(o)
             => pc' = "loop" /\ err' = "none" /\ TradeUnchanged]_vars

(***************************************************************************)
(* Tick: construction and assignment to value                              *)
(***************************************************************************)
\* no simulation is running
NoSimulation ==
    /\ market = Val(Market_createSingle(Val(Token_from(1, 18, "WETH", 1)),
                                        Val(Token_from(2, 6, "USDC", 1)),
                                        1, None, None))
    /\ ba = "asks"
    /\ amount = Val(Token_amount(Val(Token_from(2, 6, "USDC", 1)), 0))
    /\ paramsAmount = amount
    /\ maxTick = None
    /\ date = 0
    /\ provision = None
    /\ pc = "call"
    /\ mode = "none"
    /\ err = "none"
    /\ remaining = amount
    /\ result = InitialResult(ba, market)
    /\ n = 0
    /\ offer = None
    /\ last = "none"
    /\ given = 0
    /\ memoizedPrice = [k \in {} |-> 0]

TickInputs ==
    { -8388673, -8388612, -8388608, -8388607, -65535, -13, -1, 0, 4, 13,
      65534, 8388605, 8388607, 8388608, 8388611, 8388612, 8388673 }

TickSpacings == { 0, 1, 5, 65535, 65536 }

InitTick == NoSimulation /\ NoTick /\ NoAmount /\ NoConversion /\ NoRest

\* Tick.fromValue(v, s) -> new Tick(v, s)
TickConstruct ==
    /\ \E v \in TickInputs, s \in TickSpacings :
          LET r == Tick_fromValue(v, s)
          IN  /\ tickOp' = Some([op |-> "new", v |-> v, s |-> s, err |-> r.err])
              /\ tick' = IF IsOk(r) THEN Some(Val(r)) ELSE tick
    /\ UNCHANGED <<simVars, amountVars, ifoVars, restVars>>

\* tick.value = v
TickAssign ==
    /\ tick # None
    /\ \E v \in TickInputs :
          LET r == Tick_setValue(tick[1], v)
          IN  /\ tickOp' = Some([op |-> "set", v |-> v,
                                 s |-> tick[1].tickSpacing, err |-> r.err])
              /\ tick' = IF IsOk(r) THEN Some(Val(r)) ELSE tick
    /\ UNCHANGED <<simVars, amountVars, ifoVars, restVars>>

NextTick == TickConstruct \/ TickAssign

SpecTick == InitTick /\ [][NextTick]_vars

\* C8: making a Tick or assigning its value with input v and spacing s stores
\* s * trunc(v / s), truncating toward zero, and is accepted exactly when that
\* truncated value is in [-8388607, 8388607], failing with TickOverflowError
\* otherwise; every Tick holds an in-range multiple of its spacing.
C8_TickTruncatesThenChecks ==
    /\ tickOp # None /\ tickOp[1].s \in 1..65535
         => LET v == tickOp[1].v
                s == tickOp[1].s
                truncated == IF v >= 0 THEN s * (v \div s)
                             ELSE -(s * ((-v) \div s))
                inRange == truncated >= -8388607 /\ truncated <= 8388607
            IN  /\ tickOp[1].err = "none" <=> inRange
                /\ inRange => tick = Some([value |-> truncated, tickSpacing |-> s])
                /\ ~inRange => tickOp[1].err = "TickOverflowError"
    /\ tick # None
         => /\ tick[1].value >= -8388607 /\ tick[1].value <= 8388607
            /\ tick[1].tickSpacing \in 1..65535
            /\ tick[1].value % tick[1].tickSpacing = 0

\* an input below MIN_TICK that truncates into range was accepted
C8_Witness ==
    /\ tickOp # None /\ tickOp[1].err = "none"
    /\ tickOp[1].v = -8388608 /\ tickOp[1].s = 5
    /\ tick = Some([value |-> -8388605, tickSpacing |-> 5])

(***************************************************************************)
(* TokenAmount: creations, assignments and copies                          *)
(***************************************************************************)
MaxAmounts == 2

AmountTokens ==
    { Val(Token_from(1, 18, "WETH", u)) : u \in {0, 1, 3} }

\* bigints given to from, amount and normalizedAmount, and the bigints
\* parseUnits makes of the strings given to from and amountString
AmountInputs == { -1, 0, 1, 7, 21845, 65535, 65536 }

InitTokenAmount ==
    NoSimulation /\ NoTick /\ NoAmount /\ NoConversion /\ NoRest

\* the operation, its input, the TokenAmount it is on (0: a new one), its error
AmountOp(op, v, i, e) == Some([op |-> op, v |-> v, i |-> i, err |-> e])

Created(op, r, v) ==
    /\ heap' = IF IsOk(r) THEN Append(heap, Val(r)) ELSE heap
    /\ amountOp' = AmountOp(op, v, 0, r.err)
    /\ copyOf' = IF IsOk(r) THEN Append(copyOf, 0) ELSE copyOf
    /\ UNCHANGED <<simVars, tickVars, ifoVars, restVars>>

Assigned(op, i, r, v) ==
    /\ heap' = IF IsOk(r) THEN [heap EXCEPT ![i] = Val(r)] ELSE heap
    /\ amountOp' = AmountOp(op, v, i, r.err)
    /\ copyOf' = copyOf
    /\ UNCHANGED <<simVars, tickVars, ifoVars, restVars>>

\* TokenAmount.from(amount: bigint, token) / token.amount(amount)
AmountFrom ==
    /\ Len(heap) < MaxAmounts
    /\ \E v \in AmountInputs, t \in AmountTokens :
          Created("from", TokenAmount_new(v, t), v)

\* TokenAmount.from(amount: string, token): parseUnits makes the bigint
AmountFromString ==
    /\ Len(heap) < MaxAmounts
    /\ \E parsed \in AmountInputs, t \in AmountTokens :
          Created("fromString", TokenAmount_new(parsed, t), parsed)

\* a.amount = v
AmountSetAmount ==
    \E i \in DOMAIN heap, v \in AmountInputs :
        Assigned("amount", i, TokenAmount_setAmount(heap[i], v), v)

\* a.normalizedAmount = v
AmountSetNormalizedAmount ==
    \E i \in DOMAIN heap, v \in AmountInputs :
        Assigned("normalizedAmount", i,
                 TokenAmount_setNormalizedAmount(heap[i], v), v)

\* a.amountString = s: parseUnits makes the bigint
AmountSetAmountString ==
    \E i \in DOMAIN heap, parsed \in AmountInputs :
        Assigned("amountString", i, TokenAmount_setAmount(heap[i], parsed),
                 parsed)

\* a.copy(); the operation records the TokenAmount copied and the one made
AmountCopy ==
    /\ Len(heap) < MaxAmounts
    /\ \E i \in DOMAIN heap :
          LET r == copy(heap, i)
          IN  /\ heap' = r.heap
              /\ amountOp' = AmountOp("copy", i, r.made, "none")
              /\ copyOf' = IF Len(r.heap) > Len(heap) THEN Append(copyOf, i)
                            ELSE copyOf
    /\ UNCHANGED <<simVars, tickVars, ifoVars, restVars>>

NextTokenAmount ==
    \/ AmountFrom
    \/ AmountFromString
    \/ AmountSetAmount
    \/ AmountSetNormalizedAmount
    \/ AmountSetAmountString
    \/ AmountCopy

SpecTokenAmount == InitTokenAmount /\ [][NextTokenAmount]_vars

\* C9: after any creations, assignments to amount / normalizedAmount /
\* amountString and copies, every TokenAmount that exists has
\* rawAmount % token.unit = 0 and 0 <= rawAmount < 2^AMOUNT_BITS.
C9_AmountAlignedAndInRange ==
    \A i \in DOMAIN heap :
        /\ heap[i].token.unit # 0
        /\ heap[i].amount % heap[i].token.unit = 0
        /\ heap[i].amount >= 0
        /\ heap[i].amount < 2 ^ AMOUNT_BITS

\* an amount that is no multiple of the unit was assigned to the copy of a
\* TokenAmount of unit 3, and stored truncated
C9_Witness ==
    /\ Len(heap) = 2
    /\ heap[1].token.unit = 3 /\ heap[2].token.unit = 3
    /\ amountOp = AmountOp("amount", 7, 2, "none")
    /\ heap[2].amount = 6

(***************************************************************************)
(* inboundFromOutbound on its arguments                                    *)
(***************************************************************************)
IfoPrices == { 1, 17015, 32768, 32769, 121532 }

IfoOutbounds == { 0, 1, 3, 100, 255 }

IfoUnits == { 1, 2, 3, 7 }

InitInbound ==
    /\ NoSimulation /\ NoTick /\ NoAmount /\ NoRest
    /\ ifoIn \in { Some([price |-> p, outbound |-> o, outboundUnit |-> ou,
                         inboundUnit |-> iu]) :
                       p \in IfoPrices, o \in IfoOutbounds,
                       ou \in IfoUnits, iu \in IfoUnits }
    /\ ifoOut = None

\* inboundFromOutbound(price, outbound, outboundUnit, inboundUnit)
Convert ==
    /\ ifoOut = None
    /\ ifoOut' = Some(inboundFromOutbound(ifoIn[1].price, ifoIn[1].outbound,
                                          ifoIn[1].outboundUnit,
                                          ifoIn[1].inboundUnit))
    /\ UNCHANGED <<simVars, tickVars, amountVars, ifoIn, restVars>>

NextInbound == Convert

SpecInbound == InitInbound /\ [][NextInbound]_vars

\* the least integer q with q * d >= x, for x >= 0 and d >= 1
Ceil(x, d) ==
    CHOOSE q \in (x \div d)..(x \div d + 1) : q * d >= x /\ (q - 1) * d < x

NoState ==
    /\ NoSimulation /\ NoTick /\ NoAmount /\ NoConversion
    /\ NoMarket /\ NoPriceRead /\ NoBuilder

\* everything but args and ret
stateVars ==
    <<simVars, tickVars, amountVars, ifoVars, marketVars, priceOp, builderVars>>

\* ticks whose scaled price is at least 1
PriceTicks ==
    (-8..8) \cup { k * 4099 : k \in -64..64 } \cup { -524288, 524288 }

InitPrice ==
    /\ NoState
    /\ args \in { Some([tick |-> t]) : t \in PriceTicks }
    /\ ret = None

\* tickToPrice(tick) and tickToPrice(-tick)
PriceOfTickAndNegation ==
    /\ ret = None
    /\ ret' = Some([price    |-> tickToPrice(args[1].tick),
                    negation |-> tickToPrice(-args[1].tick)])
    /\ UNCHANGED <<stateVars, args>>

NextPrice == PriceOfTickAndNegation

SpecPrice == InitPrice /\ [][NextPrice]_vars

\* 2^256 (scaled: 2^(2 * PRICE_BITS)) less the product of the two prices
PriceProductGap == 2 ^ (2 * PRICE_BITS) - ret[1].price * ret[1].negation

\* C11 as stated: tickToPrice(tick) * tickToPrice(-tick) is within 1 unit of
\* 2^256.
C11_ProductWithinOneUnit ==
    ret # None => PriceProductGap >= -1 /\ PriceProductGap <= 1

\* C11: tickToPrice(tick) * tickToPrice(-tick) is 2^256 less the remainder of
\* the one integer division: at most 2^256, and short of it by less than the
\* smaller of the two prices (by nothing at tick 0).
C11_ProductWithinDivisionRemainder ==
    ret # None
    => /\ PriceProductGap >= 0
       /\ PriceProductGap < Min(ret[1].price, ret[1].negation)
       /\ args[1].tick = 0 => PriceProductGap = 0

\* the prices of a tick and its negation whose product is more than 1 unit
\* short of 2^256
C11_Witness ==
    /\ ret # None
    /\ args[1].tick # 0
    /\ PriceProductGap > 1

(***************************************************************************)
(* computeFees and excludingFees of a SemiMarket                           *)
(***************************************************************************)
FeeUnits == { 1, 3, 15 }

\* askFees and bidsFees of the market (None: undefined, read as 0)
FeeRates == { None, Some(1), Some(3000), Some(65535) }

FeeMarkets ==
    { Val(Market_createSingle(Val(Token_from(1, 18, "WETH", u)),
                              Val(Token_from(2, 6, "USDC", u)),
                              1, f, f)) : u \in FeeUnits, f \in FeeRates }

FeeAmountsNormalized == (0..20) \cup { 334, 1002 }

FeeMaxAmountsNormalized == { 0, 5, 20, 21, 1100 }

\* a maxAmount in the fee token, or one in a token of another address
FeeMaxAmounts(b, m) ==
    LET t == SemiMarket_inboundToken(b, m).token
    IN  {None}
        \cup { Some(Val(Token_amount(t, a * t.unit))) :
                   a \in FeeMaxAmountsNormalized }
        \cup { Some(Val(Token_amount([t EXCEPT !.address = 3], 1100 * t.unit))) }

InitFees ==
    /\ NoState
    /\ \E m \in FeeMarkets, b \in {"asks", "bids"} :
         \E a \in FeeAmountsNormalized, x \in FeeMaxAmounts(b, m) :
            args = Some([market |-> m, ba |-> b,
                         amount |-> Val(Token_amount(
                                        SemiMarket_inboundToken(b, m).token,
                                        a * SemiMarket_inboundToken(b, m).token.unit)),
                         maxAmount |-> x])
    /\ ret = None

\* market.computeFees(amount, maxAmount?)
ComputeFees ==
    /\ ret = None
    /\ ret' = Some([op  |-> "computeFees",
                    out |-> SemiMarket_computeFees(args[1].ba, args[1].market,
                                args[1].amount, args[1].maxAmount)])
    /\ UNCHANGED <<stateVars, args>>

\* net = market.excludingFees(amount), then market.computeFees(net)
ExcludeThenCompute ==
    /\ ret = None
    /\ LET net == SemiMarket_excludingFees(args[1].ba, args[1].market,
                                           args[1].amount)
       IN  ret' = Some([op  |-> "roundTrip",
                        net |-> net,
                        out |-> Bind(net, LAMBDA x:
                                     SemiMarket_computeFees(args[1].ba,
                                         args[1].market, x, None))])
    /\ UNCHANGED <<stateVars, args>>

NextFees == ComputeFees \/ ExcludeThenCompute

SpecFees == InitFees /\ [][NextFees]_vars

\* the fee rate of the side of the call
CallFeeRate ==
    IF args[1].ba = "asks" THEN OrZero(args[1].market.askFees)
    ELSE OrZero(args[1].market.bidsFees)

CallFeeToken ==
    [SemiMarket_inboundToken(args[1].ba, args[1].market).token EXCEPT !.unit = 1]

\* C12: for an amount and a maxAmount of the fee token, computeFees returns
\* floor(amount * feeRate / (1000000 - feeRate)) without a maxAmount and the
\* smaller of that and maxAmount - amount with one, and throws
\* MaxAmountLowerThanAmountError exactly when maxAmount < amount; so when it
\* returns with a maxAmount, amount + fee <= maxAmount.
C12_ComputeFees ==
    ret # None /\ ret[1].op = "computeFees"
    => LET a == args[1].amount.amount
           x == args[1].maxAmount
           uncapped == (a * CallFeeRate) \div (FEE_DENOMINATOR - CallFeeRate)
           out == ret[1].out
       IN  IF x = None
           THEN out = Ok([amount |-> uncapped, token |-> CallFeeToken])
           ELSE x[1].token.address = args[1].amount.token.address
                => /\ out.err = "MaxAmountLowerThanAmountError" <=> x[1].amount < a
                   /\ x[1].amount >= a
                        => /\ out = Ok([amount |-> Min(uncapped, x[1].amount - a),
                                        token |-> CallFeeToken])
                           /\ a + Val(out).amount <= x[1].amount

\* computeFees returned a fee that the maxAmount cut
C12_Witness ==
    /\ ret # None /\ ret[1].op = "computeFees"
    /\ args[1].maxAmount # None
    /\ IsOk(ret[1].out)
    /\ Val(ret[1].out).amount > 0
    /\ Val(ret[1].out).amount
          < (args[1].amount.amount * CallFeeRate)
                \div (FEE_DENOMINATOR - CallFeeRate)

\* the amount less the net amount and the fee on it
RoundTripGap ==
    args[1].amount.amount - (Val(ret[1].net).amount + Val(ret[1].out).amount)

\* C13 as stated: with net = excludingFees(A) and fee = computeFees(net),
\* 0 <= A - (net + fee) <= token.unit.
C13_RoundTripWithinUnit ==
    ret # None /\ ret[1].op = "roundTrip"
    => /\ IsOk(ret[1].net) /\ IsOk(ret[1].out)
       /\ RoundTripGap >= 0
       /\ RoundTripGap <= args[1].amount.token.unit

\* C13: with net = excludingFees(A) and fee = computeFees(net), both return
\* and 0 <= A - (net + fee) < token.unit * 1000000 / (1000000 - feeRate) + 1.
C13_RoundTripWithinScaledUnit ==
    ret # None /\ ret[1].op = "roundTrip"
    => /\ IsOk(ret[1].net) /\ IsOk(ret[1].out)
       /\ RoundTripGap >= 0
       /\ (RoundTripGap - 1) * (FEE_DENOMINATOR - CallFeeRate)
             < args[1].amount.token.unit * FEE_DENOMINATOR

\* a round trip that loses more than the unit of the token
C13_Witness ==
    /\ ret # None /\ ret[1].op = "roundTrip"
    /\ IsOk(ret[1].net) /\ IsOk(ret[1].out)
    /\ RoundTripGap > args[1].amount.token.unit

(***************************************************************************)
(* Market.create and the askFees / bidsFees setters                        *)
(***************************************************************************)
MarketTickSpacings == { -1, 0, 1, 100, 65535, 65536 }

\* undefined, or a number
MarketFees == { None, Some(-1), Some(0), Some(3000), Some(65535), Some(65536) }

InitMarket ==
    /\ NoSimulation /\ NoTick /\ NoAmount /\ NoConversion
    /\ NoCall /\ NoMarket /\ NoPriceRead /\ NoBuilder

\* Market.create({ base, quote, tickSpacing, askFees, bidsFees })
MarketCreate ==
    /\ mkt = None
    /\ \E s \in MarketTickSpacings, a \in MarketFees, b \in MarketFees :
          LET r == Market_createSingle(Val(Token_from(1, 18, "WETH", 1)),
                                       Val(Token_from(2, 6, "USDC", 1)), s, a, b)
          IN  /\ mktOp' = Some([op |-> "create", tickSpacing |-> s,
                                askFees |-> a, bidsFees |-> b,
                                before |-> mkt, err |-> r.err])
              /\ mkt' = IF IsOk(r) THEN Some(Val(r)) ELSE mkt
    /\ UNCHANGED <<simVars, tickVars, amountVars, ifoVars, callVars, priceOp,
                   builderVars>>

\* market.askFees = fees, market.bidsFees = fees
MarketAssignFees ==
    /\ mkt # None
    /\ \E side \in {"asks", "bids"}, f \in MarketFees :
          LET r == Market_setFees(mkt[1], side, f)
          IN  /\ mktOp' = Some([op |-> "set", side |-> side, fees |-> f,
                                before |-> mkt, err |-> r.err])
              /\ mkt' = IF IsOk(r) THEN Some(Val(r)) ELSE mkt
    /\ UNCHANGED <<simVars, tickVars, amountVars, ifoVars, callVars, priceOp,
                   builderVars>>

NextMarket == MarketCreate \/ MarketAssignFees

SpecMarket == InitMarket /\ [][NextMarket]_vars

\* a fee that is given and lies outside [0, 65535]
FeeOutOfRange(f) == f # None /\ (f[1] < 0 \/ f[1] > 65535)

\* C14: Market.create throws TickSpacingOverflowError when tickSpacing is
\* outside [1, 65535]; with a tickSpacing inside, it throws FeesOverflowError
\* when a given ask or bid fee is outside [0, 65535] and otherwise returns the
\* market with that tickSpacing and those fees.  Assigning askFees or bidsFees
\* throws FeesOverflowError and leaves the market as it was when the fee is
\* outside [0, 65535], and otherwise stores the fee.
C14_MarketRanges ==
    mktOp # None
    => LET o == mktOp[1]
       IN  IF o.op = "create"
           THEN /\ o.err = IF o.tickSpacing < 1 \/ o.tickSpacing > 65535
                           THEN "TickSpacingOverflowError"
                           ELSE IF FeeOutOfRange(o.askFees)
                                   \/ FeeOutOfRange(o.bidsFees)
                           THEN "FeesOverflowError"
                           ELSE "none"
                /\ o.err = "none"
                     => /\ mkt # None
                        /\ mkt[1].tickSpacing = o.tickSpacing
                        /\ mkt[1].askFees = o.askFees
                        /\ mkt[1].bidsFees = o.bidsFees
                /\ o.err # "none" => mkt = o.before
           ELSE /\ o.err = IF FeeOutOfRange(o.fees) THEN "FeesOverflowError"
                           ELSE "none"
                /\ o.err = "none"
                     => /\ o.side = "asks"
                             => mkt[1] = [o.before[1] EXCEPT !.askFees = o.fees]
                        /\ o.side = "bids"
                             => mkt[1] = [o.before[1] EXCEPT !.bidsFees = o.fees]
                /\ o.err # "none" => mkt = o.before

\* the largest fee was assigned to a market made with the largest tick spacing
C14_Witness ==
    /\ mktOp # None /\ mktOp[1].op = "set"
    /\ mktOp[1].fees = Some(65535) /\ mktOp[1].err = "none"
    /\ mkt[1].tickSpacing = 65535
    /\ mkt[1].askFees = Some(65535)

(***************************************************************************)
(* lib/offer.ts: unpackOffer                                               *)
(*                                                                         *)
(* A bigint of up to 256 bits is the function from bit index to bit;       *)
(* bit 0 is the least significant one.                                     *)
(***************************************************************************)
WORD_BITS == 256

Word == 0..(WORD_BITS - 1)

\* a bigint literal 0x..., given by its hexadecimal digits
BitsOfHex(h) ==
    [i \in Word |-> IF i < 4 * Len(h)
                    THEN (h[Len(h) - (i \div 4)] \div (2 ^ (i % 4))) % 2
                    ELSE 0]

\* x >> k
ShiftRight(x, k) == [i \in Word |-> IF i + k < WORD_BITS THEN x[i + k] ELSE 0]

\* x & y
BitAnd(x, y) == [i \in Word |-> x[i] * y[i]]

\* the number the k low bits of x stand for
RECURSIVE LowValue(_, _)
LowValue(x, k) == IF k = 0 THEN 0 ELSE LowValue(x, k - 1) + x[k - 1] * 2 ^ (k - 1)

\* BigInt.asIntN(k, x)
BigInt_asIntN(k, x) ==
    IF x[k - 1] = 1 THEN LowValue(x, k) - 2 ^ k ELSE LowValue(x, k)

\* BigInt.asUintN(k, x)
BigInt_asUintN(k, x) == LowValue(x, k)

\* Number(x): exact below 2^53; above, the 53 leading bits are kept
Number(x) ==
    IF \A i \in 53..(WORD_BITS - 1) : x[i] = 0
    THEN x
    ELSE LET top == CHOOSE i \in Word :
                       x[i] = 1 /\ \A j \in Word : j > i => x[j] = 0
         IN  [i \in Word |-> IF i > top - 53 THEN x[i] ELSE 0]

PREV_MASK == BitsOfHex(<<15, 15, 15, 15, 15, 15, 15, 15, 15, 15>>)

NEXT_MASK == BitsOfHex(<<15, 15, 15, 15, 15, 15, 15, 15, 15, 15>>)

EXPIRY_MASK == BitsOfHex(<<15, 15, 15, 15, 15, 15, 15, 15>>)

GIVES_MASK == BitsOfHex(<<15, 15, 15, 15, 15, 15, 15, 15, 15, 15, 15, 15>>)

RECEIVED_MASK == BitsOfHex(<<15, 15, 15, 15, 15, 15, 15, 15, 15, 15, 15, 15>>)

TICK_MASK == BitsOfHex(<<15, 15, 15, 15, 15, 15>>)

PROVISION_MASK == BitsOfHex(<<7, 15, 15, 15, 15, 15>>)

IS_ACTIVE_MASK == BitsOfHex(<<0, 1>>)

PREV_SHIFT == 216

NEXT_SHIFT == 176

EXPIRY_SHIFT == 144

GIVES_SHIFT == 96

RECEIVED_SHIFT == 48

TICK_SHIFT == 24

PROVISION_SHIFT == 1

IS_ACTIVE_SHIFT == 0

\* unpackOffer with the tick field read as unsigned
unpackOffer_unsignedTick(packed) ==
    LET expiry == BitAnd(ShiftRight(packed, EXPIRY_SHIFT), EXPIRY_MASK)
    IN  [prev      |-> Number(BitAnd(ShiftRight(packed, PREV_SHIFT), PREV_MASK)),
         next      |-> Number(BitAnd(ShiftRight(packed, NEXT_SHIFT), NEXT_MASK)),
         expiry    |-> IF expiry = BitsOfHex(<<0>>) THEN None
                       ELSE Some(Number(expiry)),
         gives     |-> BitAnd(ShiftRight(packed, GIVES_SHIFT), GIVES_MASK),
         received  |-> BitAnd(ShiftRight(packed, RECEIVED_SHIFT), RECEIVED_MASK),
         tick      |-> BigInt_asUintN(24,
                           BitAnd(ShiftRight(packed, TICK_SHIFT), TICK_MASK)),
         provision |-> BitAnd(ShiftRight(packed, PROVISION_SHIFT), PROVISION_MASK),
         isActive  |-> BitAnd(ShiftRight(packed, IS_ACTIVE_SHIFT), IS_ACTIVE_MASK)
                          = IS_ACTIVE_MASK]

\* unpackOffer(offer); a Date is given by its seconds, new Date(s * 1000)
unpackOffer(packed) ==
    LET expiry == BitAnd(ShiftRight(packed, EXPIRY_SHIFT), EXPIRY_MASK)
    IN  [prev      |-> Number(BitAnd(ShiftRight(packed, PREV_SHIFT), PREV_MASK)),
         next      |-> Number(BitAnd(ShiftRight(packed, NEXT_SHIFT), NEXT_MASK)),
         expiry    |-> IF expiry = BitsOfHex(<<0>>) THEN None
                       ELSE Some(Number(expiry)),
         gives     |-> BitAnd(ShiftRight(packed, GIVES_SHIFT), GIVES_MASK),
         received  |-> BitAnd(ShiftRight(packed, RECEIVED_SHIFT), RECEIVED_MASK),
         tick      |-> BigInt_asIntN(24,
                           BitAnd(ShiftRight(packed, TICK_SHIFT), TICK_MASK)),
         provision |-> BitAnd(ShiftRight(packed, PROVISION_SHIFT), PROVISION_MASK),
         isActive  |-> BitAnd(ShiftRight(packed, IS_ACTIVE_SHIFT), IS_ACTIVE_MASK)
                          = IS_ACTIVE_MASK]

\* the bits at the edges of the fields, and some inside them
PackedBits ==
    { 0, 1, 10, 23, 24, 35, 46, 47, 48, 70, 95, 96, 120, 143, 144, 160, 175,
      176, 200, 215, 216, 240, 255 }

\* the words with at most two of these bits set, and those with at most two
\* of them clear
PackedWords ==
    UNION { { [i \in Word |-> IF i \in {a, b} THEN 1 ELSE 0],
              [i \in Word |-> IF i \in {a, b} THEN 0 ELSE 1] } :
            a \in PackedBits \cup {-1}, b \in PackedBits \cup {-1} }

InitUnpack ==
    /\ NoState
    /\ args \in { Some([offer |-> w]) : w \in PackedWords }
    /\ ret = None

UnpackOffer ==
    /\ ret = None
    /\ ret' = Some(unpackOffer(args[1].offer))
    /\ UNCHANGED <<stateVars, args>>

NextUnpack == UnpackOffer

SpecUnpack == InitUnpack /\ [][NextUnpack]_vars

\* bits lo..hi of the word, as a number of its own
Field(w, lo, hi) == [i \in Word |-> IF i <= hi - lo THEN w[lo + i] ELSE 0]

\* C15: unpackOffer returns, for every 256-bit word, prev = bits 216-255,
\* next = bits 176-215, expiry = none when bits 144-175 are all 0 and else
\* that number of seconds, gives = bits 96-143, received = bits 48-95,
\* tick = bits 24-47 as a signed 24-bit two's-complement number,
\* provision = bits 1-23 and isActive = bit 0.
C15_UnpackFields ==
    ret # None
    => LET w == args[1].offer
           r == ret[1]
       IN  /\ r.prev = Field(w, 216, 255)
           /\ r.next = Field(w, 176, 215)
           /\ r.expiry = IF \A i \in 144..175 : w[i] = 0 THEN None
                         ELSE Some(Field(w, 144, 175))
           /\ r.gives = Field(w, 96, 143)
           /\ r.received = Field(w, 48, 95)
           /\ r.tick = LowValue(Field(w, 24, 46), 23) - w[47] * 2 ^ 23
           /\ r.provision = Field(w, 1, 23)
           /\ r.isActive = (w[0] = 1)

\* a word with a negative tick, no expiry and the top bit of prev set
C15_Witness ==
    /\ ret # None
    /\ ret[1].tick < 0
    /\ ret[1].expiry = None
    /\ ret[1].prev[39] = 1
    /\ args[1].offer[23] = 0

(***************************************************************************)
(* Tick.price and Tick.memoizedPrice                                       *)
(***************************************************************************)
\* ticks whose scaled price is at least 1, one of them a multiple of 5
CachedTickInputs == { -4099, -13, 0, 4, 10, 13 }

CachedTickSpacings == { 1, 5 }

InitCache ==
    /\ NoSimulation /\ NoTick /\ NoAmount /\ NoConversion
    /\ NoCall /\ NoMarket /\ NoPriceRead /\ NoBuilder

\* Tick.fromValue(v, s)
CachedTickConstruct ==
    /\ \E v \in CachedTickInputs, s \in CachedTickSpacings :
          LET r == Tick_fromValue(v, s)
          IN  tick' = IF IsOk(r) THEN Some(Val(r)) ELSE tick
    /\ UNCHANGED <<simVars, tickOp, amountVars, ifoVars, restVars>>

\* tick.value = v
CachedTickAssign ==
    /\ tick # None
    /\ \E v \in CachedTickInputs :
          LET r == Tick_setValue(tick[1], v)
          IN  tick' = IF IsOk(r) THEN Some(Val(r)) ELSE tick
    /\ UNCHANGED <<simVars, tickOp, amountVars, ifoVars, restVars>>

\* tick.price
CachedTickPrice ==
    /\ tick # None
    /\ priceOp' = Some([value       |-> tick[1].value,
                        tickSpacing |-> tick[1].tickSpacing,
                        hit         |-> tick[1].value \in DOMAIN memoizedPrice,
                        price       |-> Tick_price(memoizedPrice, tick[1].value)])
    /\ memoizedPrice' = Tick_price_cache(memoizedPrice, tick[1].value)
    /\ UNCHANGED <<simInputs, paramsAmount, pc, mode, err, remaining, result, n,
                   offer, last, given, tickVars, amountVars, ifoVars, callVars, marketVars,
                   builderVars>>

NextCache == CachedTickConstruct \/ CachedTickAssign \/ CachedTickPrice

SpecCache == InitCache /\ [][NextCache]_vars

\* C16: whatever Ticks were made, assigned and read, the price of the tick
\* is tickToPrice of its value, each price read returned tickToPrice of the
\* value read, every entry of the cache is tickToPrice of its key (a number,
\* whatever the tick spacing), and no step removes or changes an entry.
C16_PriceIsMemoizedTickToPrice ==
    /\ [](/\ tick # None
             => Tick_price(memoizedPrice, tick[1].value)
                    = tickToPrice(tick[1].value)
          /\ priceOp # None
             => priceOp[1].price = tickToPrice(priceOp[1].value)
          /\ \A k \in DOMAIN memoizedPrice :
                 k \in Int /\ memoizedPrice[k] = tickToPrice(k))
    /\ [][\A k \in DOMAIN memoizedPrice :
              /\ k \in DOMAIN memoizedPrice'
              /\ memoizedPrice'[k] = memoizedPrice[k]]_vars

\* a tick of spacing 5 read the price that was in the cache for its value,
\* a negative one being cached too
C16_Witness ==
    /\ priceOp # None
    /\ priceOp[1].hit
    /\ priceOp[1].tickSpacing = 5
    /\ priceOp[1].value = 10
    /\ -4099 \in DOMAIN memoizedPrice

\* C17 as stated: TokenAmount.from(raw, token), for any token Token.from
\* accepts, either returns an amount of raw - (raw mod token.unit) or throws
\* TokenAmountOverflowError, which it does exactly when raw is negative or
\* does not fit; it throws no other error.
C17_CreateTruncatesOrOverflows ==
    amountOp # None /\ amountOp[1].op = "from"
    => LET v == amountOp[1].v
       IN  /\ amountOp[1].err \in {"none", "TokenAmountOverflowError"}
           /\ amountOp[1].err = "TokenAmountOverflowError"
                 <=> (v < 0 \/ v >= 2 ^ AMOUNT_BITS)
           /\ amountOp[1].err = "none"
                 => heap[Len(heap)].amount
                        = v - (v % heap[Len(heap)].token.unit)

\* C18: copy() makes another TokenAmount, with the token and the amount of
\* the one copied, and an assignment to a TokenAmount changes neither the
\* one it was copied from nor one copied from it.
C18_CopyIsIndependent ==
    /\ [](amountOp # None /\ amountOp[1].op = "copy"
          => /\ amountOp[1].i # amountOp[1].v
             /\ amountOp[1].i \in DOMAIN heap
             /\ heap[amountOp[1].i].token = heap[amountOp[1].v].token
             /\ heap[amountOp[1].i].amount = heap[amountOp[1].v].amount)
    /\ [][\A c \in DOMAIN heap :
              /\ copyOf[c] # 0 /\ heap'[c] # heap[c]
                    => heap'[copyOf[c]] = heap[copyOf[c]]
              /\ copyOf[c] # 0 /\ heap'[copyOf[c]] # heap[copyOf[c]]
                    => heap'[c] = heap[c]]_vars

\* an assignment to a copy left it with another amount than its original
C18_Witness ==
    /\ Len(heap) = 2 /\ copyOf[2] = 1
    /\ amountOp = AmountOp("normalizedAmount", 7, 2, "none")
    /\ heap[2].token = heap[1].token
    /\ heap[2].amount # heap[1].amount

(***************************************************************************)
(* Market.asksKey and Market.bidsKey                                       *)
(***************************************************************************)
\* encodeAbiParameters of (address, uint256, address, uint256, uint256): five
\* words, one for each value
encodeAbiParameters(values) == values

\* keccak256, taken to be free of collisions
keccak256(data) == [keccak256 |-> data]

\* get asksKey(), with _asksKey as cached
Market_asksKey(this, cached) ==
    IF cached # None THEN cached[1]
    ELSE keccak256(encodeAbiParameters(
             <<this.base.token.address, this.base.token.unit,
               this.quote.token.address, this.quote.token.unit,
               this.tickSpacing>>))

\* get bidsKey() that hashes the tuple of asksKey
Market_bidsKey_unswapped(this, cached) == Market_asksKey(this, cached)

\* get bidsKey(), with _bidsKey as cached
Market_bidsKey(this, cached) ==
    IF cached # None THEN cached[1]
    ELSE keccak256(encodeAbiParameters(
             <<this.quote.token.address, this.quote.token.unit,
               this.base.token.address, this.base.token.unit,
               this.tickSpacing>>))

KeyAddresses == { 1, 2 }

KeyUnits == { 1, 3 }

KeyTickSpacings == { 1, 100 }

KeyMarkets ==
    { Val(Market_createSingle(Val(Token_from(a, 18, "A", u)),
                              Val(Token_from(b, 18, "B", v)), s, None, None)) :
        a \in KeyAddresses, u \in KeyUnits, b \in KeyAddresses, v \in KeyUnits,
        s \in KeyTickSpacings }

\* a Market just created: no key cached, none read
InitKeys ==
    /\ NoState
    /\ args \in { Some([market |-> m]) : m \in KeyMarkets }
    /\ ret = Some([_asksKey |-> None, _bidsKey |-> None, read |-> None])

\* market.asksKey
ReadAsksKey ==
    /\ LET k == Market_asksKey(args[1].market, ret[1]._asksKey)
       IN  ret' = Some([ret[1] EXCEPT !._asksKey = Some(k),
                                      !.read = Some([side |-> "asks", key |-> k])])
    /\ UNCHANGED <<stateVars, args>>

\* market.bidsKey
ReadBidsKey ==
    /\ LET k == Market_bidsKey(args[1].market, ret[1]._bidsKey)
       IN  ret' = Some([ret[1] EXCEPT !._bidsKey = Some(k),
                                      !.read = Some([side |-> "bids", key |-> k])])
    /\ UNCHANGED <<stateVars, args>>

\* market.askFees = f, market.bidsFees = f
KeysAssignFees ==
    /\ \E side \in {"asks", "bids"}, f \in {None, Some(3000)} :
          args' = Some([args[1] EXCEPT
                           !.market = Val(Market_setFees(args[1].market, side, f))])
    /\ UNCHANGED <<stateVars, ret>>

NextKeys == ReadAsksKey \/ ReadBidsKey \/ KeysAssignFees

SpecKeys == InitKeys /\ [][NextKeys]_vars

\* the hash of the five values
KeyOf(a, u, b, v, s) == [keccak256 |-> <<a, u, b, v, s>>]

KeysRead ==
    /\ ret[1]._asksKey # None
    /\ ret[1]._bidsKey # None

\* C19 as stated: the key read is the hash of (base.address, base.unit,
\* quote.address, quote.unit, tickSpacing) for asks and of the tuple with
\* base and quote swapped for bids, every read returns it, and the two keys
\* of a Market are distinct.
C19_KeysDistinct ==
    LET m == args[1].market
    IN  /\ ret[1].read # None /\ ret[1].read[1].side = "asks"
           => ret[1].read[1].key
                 = KeyOf(m.base.token.address, m.base.token.unit,
                         m.quote.token.address, m.quote.token.unit, m.tickSpacing)
        /\ ret[1].read # None /\ ret[1].read[1].side = "bids"
           => ret[1].read[1].key
                 = KeyOf(m.quote.token.address, m.quote.token.unit,
                         m.base.token.address, m.base.token.unit, m.tickSpacing)
        /\ KeysRead => ret[1]._asksKey # ret[1]._bidsKey

\* C19: the key read is the hash of (base.address, base.unit, quote.address,
\* quote.unit, tickSpacing) for asks and of the tuple with base and quote
\* swapped for bids, every read returns it, and the two keys of a Market are
\* distinct exactly when base and quote differ in address or in unit.
C19_KeysDistinctUnlessSameToken ==
    LET m == args[1].market
    IN  /\ ret[1].read # None /\ ret[1].read[1].side = "asks"
           => ret[1].read[1].key
                 = KeyOf(m.base.token.address, m.base.token.unit,
                         m.quote.token.address, m.quote.token.unit, m.tickSpacing)
        /\ ret[1].read # None /\ ret[1].read[1].side = "bids"
           => ret[1].read[1].key
                 = KeyOf(m.quote.token.address, m.quote.token.unit,
                         m.base.token.address, m.base.token.unit, m.tickSpacing)
        /\ KeysRead
           => (ret[1]._asksKey # ret[1]._bidsKey
                 <=> \/ m.base.token.address # m.quote.token.address
                     \/ m.base.token.unit # m.quote.token.unit)

\* both keys of a Market whose base and quote are one token were read
C19_Witness ==
    /\ KeysRead
    /\ args[1].market.base.token.address = args[1].market.quote.token.address
    /\ args[1].market.base.token.unit = args[1].market.quote.token.unit
    /\ args[1].market.askFees = Some(3000)
    /\ ret[1]._asksKey = ret[1]._bidsKey

(***************************************************************************)
(* router/actions/builder.ts: VifRouterActionsBuilder.orderMulti           *)
(*                                                                         *)
(* A SemiMarket is a record [ba, market].                                  *)
(***************************************************************************)
\* get key() of a SemiMarket
SemiMarket_key(sm) ==
    IF sm.ba = "asks" THEN Market_asksKey(sm.market, None)
    ELSE Market_bidsKey(sm.market, None)

\* maxUint256, at the width the model gives amounts
maxUint256 == 2 ^ AMOUNT_BITS - 1

\* the path check on whole tokens instead of addresses
PathConnects_byEquals(markets) ==
    \A i \in 2..Len(markets) :
        Token_equals(
            SemiMarket_inboundToken(markets[i].ba, markets[i].market).token,
            SemiMarket_outboundToken(markets[i - 1].ba,
                                     markets[i - 1].market).token)

\* the loop over the path: each market's inbound address against that of
\* prevToken, which starts as the inbound token of the first market
PathConnects(markets) ==
    \A i \in 2..Len(markets) :
        isAddressEqual(
            SemiMarket_inboundToken(markets[i].ba, markets[i].market).token.address,
            SemiMarket_outboundToken(markets[i - 1].ba,
                                     markets[i - 1].market).token.address)

\* orderMulti({ markets, fillVolume, limitVolume }) on the builder's list;
\* maxOffers is left to its default
orderMulti(list, markets, fillVolume, limitVolume) ==
    IF Len(markets) < 2 THEN Throw("InvalidPathMultiOrderError")
    ELSE
    LET sendToken    == SemiMarket_inboundToken(markets[1].ba, markets[1].market)
        receiveToken == SemiMarket_outboundToken(markets[Len(markets)].ba,
                                                 markets[Len(markets)].market)
        fillWants    == Token_equals(fillVolume.token, receiveToken.token)
    IN  IF ~fillWants /\ ~Token_equals(fillVolume.token, sendToken.token)
        THEN Throw("InvalidTokenError")
        ELSE
        Bind(IF limitVolume # None THEN Ok(limitVolume[1])
             ELSE IF fillWants THEN Token_amount(sendToken.token, maxUint256)
             ELSE Token_amount(receiveToken.token, 0), LAMBDA limit:
        IF \/ fillWants /\ ~Token_equals(limit.token, sendToken.token)
           \/ ~fillWants /\ ~Token_equals(limit.token, receiveToken.token)
        THEN Throw("InvalidTokenError")
        ELSE IF ~PathConnects(markets)
        THEN Throw("InvalidPathMultiOrderError")
        ELSE Ok(Append(list,
                 [action   |-> "ORDER_MULTI",
                  args     |-> encodeAbiParameters(
                                  <<[i \in DOMAIN markets |->
                                        SemiMarket_key(markets[i])],
                                    fillVolume.amount, fillWants, 50,
                                    limit.amount>>),
                  metadata |-> [markets |-> markets, fillWants |-> fillWants]])))

MaxActions == 2

\* tokens A, B, C, and B again as a market of another unit has it
PathToken(a, u) == Val(Token_from(a, 18, "T", u))

PathMarket(a, u, b, v) ==
    Val(Market_createSingle(PathToken(a, u), PathToken(b, v), 1, None, None))

\* takers of AB.bids pay A for B, those of BC.bids pay B for C
ABb == [ba |-> "bids", market |-> PathMarket(1, 1, 2, 1)]

ABa == [ba |-> "asks", market |-> PathMarket(1, 1, 2, 1)]

BCb == [ba |-> "bids", market |-> PathMarket(2, 1, 3, 1)]

BCa == [ba |-> "asks", market |-> PathMarket(2, 1, 3, 1)]

AB3b == [ba |-> "bids", market |-> PathMarket(1, 1, 2, 3)]

Paths ==
    { <<>>, <<ABb>>, <<ABb, BCb>>, <<BCa, ABa>>, <<ABb, ABb>>, <<BCb, ABb>>,
      <<AB3b, BCb>>, <<ABb, BCb, BCa>>, <<ABb, BCa, BCb>>, <<ABb, BCb, ABb>> }

PathVolumes == { Val(Token_amount(PathToken(a, 1), 10)) : a \in {1, 2, 3} }

PathLimits == { None, Some(Val(Token_amount(PathToken(3, 1), 5))) }

InitBuilder ==
    /\ NoSimulation /\ NoTick /\ NoAmount /\ NoConversion
    /\ NoCall /\ NoMarket /\ NoPriceRead /\ NoBuilder

\* builder.orderMulti(params)
OrderMulti ==
    /\ Len(actions) < MaxActions
    /\ \E p \in Paths, f \in PathVolumes, l \in PathLimits :
          LET r == orderMulti(actions, p, f, l)
          IN  /\ buildOp' = Some([markets |-> p, fillVolume |-> f,
                                  limitVolume |-> l, err |-> r.err])
              /\ actions' = IF IsOk(r) THEN Val(r) ELSE actions
    /\ UNCHANGED <<simVars, tickVars, amountVars, ifoVars, callVars, marketVars,
                   priceOp>>

NextBuilder == OrderMulti

SpecBuilder == InitBuilder /\ [][NextBuilder]_vars

\* of the last call: the path has no two markets; some market's inbound token
\* has another address than the outbound token of the market before it
CallShort == Len(buildOp[1].markets) < 2

CallBroken ==
    \E i \in 2..Len(buildOp[1].markets) :
        LET a == buildOp[1].markets[i - 1]
            b == buildOp[1].markets[i]
        IN  (IF b.ba = "asks" THEN b.market.quote ELSE b.market.base).token.address
              # (IF a.ba = "asks" THEN a.market.base ELSE a.market.quote).token.address

\* of the last call: fillVolume is in the token sent or received, and a
\* given limitVolume in the other one of the two
CallTokensValid ==
    LET p     == buildOp[1].markets
        send  == (IF p[1].ba = "asks" THEN p[1].market.quote
                  ELSE p[1].market.base).token
        recv  == (IF p[Len(p)].ba = "asks" THEN p[Len(p)].market.base
                  ELSE p[Len(p)].market.quote).token
        fill  == buildOp[1].fillVolume.token
        limit == buildOp[1].limitVolume
    IN  /\ fill = recv \/ fill = send
        /\ limit # None => limit[1].token = IF fill = recv THEN send ELSE recv

\* a failed call leaves the list; a call that returns appends one ORDER_MULTI
ListGrowsByOneOrderMulti ==
    IF buildOp'[1].err # "none" THEN actions' = actions
    ELSE /\ Len(actions') = Len(actions) + 1
         /\ SubSeq(actions', 1, Len(actions)) = actions
         /\ actions'[Len(actions')].action = "ORDER_MULTI"

\* C20 as stated: orderMulti throws InvalidPathMultiOrderError when the path
\* has fewer than two markets or is broken; a failed call leaves the action
\* list and a call that returns appends exactly one ORDER_MULTI action.
C20_BrokenPathThrowsInvalidPath ==
    /\ [](buildOp # None /\ (CallShort \/ CallBroken)
          => buildOp[1].err = "InvalidPathMultiOrderError")
    /\ [][ListGrowsByOneOrderMulti]_vars

\* C20: orderMulti throws InvalidPathMultiOrderError when the path has fewer
\* than two markets; otherwise InvalidTokenError when the fill or limit
\* volume is in a wrong token, whether the path is broken or not; otherwise
\* InvalidPathMultiOrderError when the path is broken; otherwise it returns.
\* A failed call leaves the action list and a call that returns appends
\* exactly one ORDER_MULTI action.
C20_OrderMultiErrors ==
    /\ [](buildOp # None
          => buildOp[1].err = IF CallShort THEN "InvalidPathMultiOrderError"
                              ELSE IF ~CallTokensValid THEN "InvalidTokenError"
                              ELSE IF CallBroken THEN "InvalidPathMultiOrderError"
                              ELSE "none")
    /\ [][ListGrowsByOneOrderMulti]_vars

\* a call with a broken path and a fill volume in a wrong token threw
\* InvalidTokenError and left the one action the builder had
C20_Witness ==
    /\ buildOp # None
    /\ ~CallShort /\ CallBroken
    /\ buildOp[1].err = "InvalidTokenError"
    /\ Len(actions) = 1

(***************************************************************************)
(* simulate and its inputs                                                 *)
(***************************************************************************)
\* Tick.memoizedPrice before any price was read
NoPrices == [k \in {} |-> 0]

\* C21: at every point of a call, whether it goes on to return or to throw,
\* params.amount holds what the caller put in it (the walk writes to a copy;
\* the offers, the global provision and the market are only read), and the
\* pass the loop is about to make comes out the same with the prices cached
\* so far as with no price cached, so that a call's result depends on its
\* inputs alone.
C21_SimulateLeavesInputs ==
    /\ paramsAmount = amount
    /\ pc = "body" /\ mode = "exactIn"
       => ExactIn_body(ba, market, memoizedPrice, remaining, result, offer[1],
                       MaxTickOr(maxTick, market), date, ProvisionOr(provision))
            = ExactIn_body(ba, market, NoPrices, remaining, result, offer[1],
                           MaxTickOr(maxTick, market), date,
                           ProvisionOr(provision))
    /\ pc = "body" /\ mode = "exactOut"
       => ExactOut_body(ba, market, memoizedPrice, remaining, result, offer[1],
                        MaxTickOr(maxTick, market), date, ProvisionOr(provision))
            = ExactOut_body(ba, market, NoPrices, remaining, result, offer[1],
                            MaxTickOr(maxTick, market), date,
                            ProvisionOr(provision))

\* an exact-in call returned after it spent all of its copy of the amount,
\* with a price in the cache
C21_Witness ==
    /\ pc = "returned" /\ mode = "exactIn"
    /\ amount.amount > 0
    /\ remaining.amount = 0
    /\ result.got.amount > 0
    /\ paramsAmount = amount
    /\ DOMAIN memoizedPrice # {}

\* C26: at every point of an exact-out walk, got is at most the amount asked
\* for, got plus the amount still wanted is the amount asked for, and got is
\* the smaller of the amount asked for and what the live offers met so far
\* (all within maxTick, the walk stopping at the first one beyond it) give in
\* total; so got is the amount asked for whenever those offers give that much.
C26_ExactOutGot ==
    mode = "exactOut" /\ pc \in {"loop", "body", "break", "returned"}
    => /\ result.got.amount <= amount.amount
       /\ result.got.amount + remaining.amount = amount.amount
       /\ result.got.amount = Min(amount.amount, given)

\* an exact-out walk returned the amount asked for, its last offer taken in
\* part
C26_Witness ==
    /\ mode = "exactOut" /\ pc = "returned"
    /\ amount.amount > 0
    /\ result.got.amount = amount.amount
    /\ given > amount.amount
    /\ n >= 2

(***************************************************************************)
(* the ways simulate ends                                                  *)
(***************************************************************************)
\* C30: as stated, a call of simulate that fails fails with InvalidToken or
\* OfferAmountOverflow, and no amount it accumulates leaves the range of a
\* TokenAmount.
C30_FailsOnlyTyped ==
    pc = "thrown" => err \in {"InvalidTokenError", "OfferAmountOverflowError"}

(***************************************************************************)
(* The setters, as the object they leave behind                            *)
(*                                                                         *)
(* Each setter is the statements of its body in order; `this` in the       *)
(* outcome is the object after the call, whether it returned or threw.     *)
(***************************************************************************)
Left(e, this) == [err |-> e, this |-> this]

\* set value(tick): truncate, check, store
Tick_set_value(this, v) ==
    LET t == this.tickSpacing * BigDiv(v, this.tickSpacing)
    IN  IF ~Tick_checkTick(t)
        THEN Left("TickOverflowError", this)
        ELSE Left("none", [this EXCEPT !.value = t])

\* set amount(amount) storing before it checks
TokenAmount_set_amount_storesFirst(this, v) ==
    LET stored == [this EXCEPT !.amount = v - BigMod(v, this.token.unit)]
    IN  IF ~checkFitsWithin(v, AMOUNT_BITS)
        THEN Left("TokenAmountOverflowError", stored)
        ELSE Left("none", stored)

\* set amount(amount): check, then store the truncated amount
TokenAmount_set_amount(this, v) ==
    IF ~checkFitsWithin(v, AMOUNT_BITS)
    THEN Left("TokenAmountOverflowError", this)
    ELSE IF this.token.unit = 0
    THEN Left("RangeError", this)
    ELSE Left("none", [this EXCEPT !.amount = v - BigMod(v, this.token.unit)])

\* set normalizedAmount(amount): this.amount = amount * this.token.unit
TokenAmount_set_normalizedAmount(this, v) ==
    TokenAmount_set_amount(this, v * this.token.unit)

\* set askFees(fees) / set bidsFees(fees): check, then store
Market_set_fees(this, side, v) ==
    IF v # None /\ v[1] # 0 /\ ~Market_checkFees(v[1])
    THEN Left("FeesOverflowError", this)
    ELSE Left("none", IF side = "asks" THEN [this EXCEPT !.askFees = v]
                      ELSE [this EXCEPT !.bidsFees = v])

\* a Tick, a TokenAmount and a Market, made by their constructors
InitMutation ==
    /\ NoSimulation /\ NoConversion /\ NoPriceRead /\ NoBuilder
    /\ tickOp = None /\ amountOp = None /\ mktOp = None
    /\ \E v \in {-65535, 0, 13}, s \in {1, 5} :
          tick = Some(Val(Tick_fromValue(v, s)))
    /\ \E v \in {0, 7}, u \in {1, 3} :
          heap = << Val(Token_amount(Val(Token_from(1, 18, "WETH", u)), v)) >>
    /\ copyOf = <<0>>
    /\ \E a \in {None, Some(3000)} :
          mkt = Some(Val(Market_createSingle(Val(Token_from(1, 18, "WETH", 1)),
                                             Val(Token_from(2, 6, "USDC", 1)),
                                             1, a, None)))
    /\ args = None
    /\ ret = None

\* the assignment made, the objects before it, and how it ended
Mutation(op, v, e) ==
    Some([op |-> op, v |-> v, err |-> e,
          before |-> [tick |-> tick, heap |-> heap, mkt |-> mkt]])

\* tick.value = v
MutateTickValue ==
    /\ \E v \in {-8388608, -65535, 4, 8388607, 8388608} :
          LET r == Tick_set_value(tick[1], v)
          IN  /\ tick' = Some(r.this)
              /\ args' = Mutation("value", v, r.err)
    /\ UNCHANGED <<simVars, tickOp, amountVars, ifoVars, ret, marketVars,
                   priceOp, builderVars>>

\* a.amount = v
MutateAmount ==
    /\ \E v \in AmountInputs :
          LET r == TokenAmount_set_amount(heap[1], v)
          IN  /\ heap' = << r.this >>
              /\ args' = Mutation("amount", v, r.err)
    /\ UNCHANGED <<simVars, tickVars, amountOp, copyOf, ifoVars, ret, marketVars,
                   priceOp, builderVars>>

\* a.normalizedAmount = v
MutateNormalizedAmount ==
    /\ \E v \in AmountInputs :
          LET r == TokenAmount_set_normalizedAmount(heap[1], v)
          IN  /\ heap' = << r.this >>
              /\ args' = Mutation("normalizedAmount", v, r.err)
    /\ UNCHANGED <<simVars, tickVars, amountOp, copyOf, ifoVars, ret, marketVars,
                   priceOp, builderVars>>

\* market.askFees = v
MutateAskFees ==
    /\ \E v \in MarketFees :
          LET r == Market_set_fees(mkt[1], "asks", v)
          IN  /\ mkt' = Some(r.this)
              /\ args' = Mutation("askFees", v, r.err)
    /\ UNCHANGED <<simVars, tickVars, amountVars, ifoVars, ret, mktOp, priceOp,
                   builderVars>>

\* market.bidsFees = v
MutateBidsFees ==
    /\ \E v \in MarketFees :
          LET r == Market_set_fees(mkt[1], "bids", v)
          IN  /\ mkt' = Some(r.this)
              /\ args' = Mutation("bidsFees", v, r.err)
    /\ UNCHANGED <<simVars, tickVars, amountVars, ifoVars, ret, mktOp, priceOp,
                   builderVars>>

NextMutation ==
    \/ MutateTickValue
    \/ MutateAmount
    \/ MutateNormalizedAmount
    \/ MutateAskFees
    \/ MutateBidsFees

SpecMutation == InitMutation /\ [][NextMutation]_vars

\* the fee is absent or in [0, 65535]
FeeInRange(f) == f = None \/ (f[1] >= 0 /\ f[1] <= 65535)

\* C27: an assignment to Tick.value, TokenAmount.amount or normalizedAmount,
\* Market.askFees or bidsFees that fails fails with the overflow error of its
\* class and leaves the Tick, the TokenAmount and the Market holding what they
\* held before; after every assignment, failed or not, the tick is a multiple
\* of its spacing in [MIN_TICK, MAX_TICK], the amount a multiple of its unit in
\* [0, 2^AMOUNT_BITS), and each fee absent or in [0, 65535].
C27_RejectedMutationChangesNothing ==
    /\ args # None /\ args[1].err # "none"
         => /\ tick = args[1].before.tick
            /\ heap = args[1].before.heap
            /\ mkt = args[1].before.mkt
            /\ args[1].err
                 = CASE args[1].op = "value" -> "TickOverflowError"
                     [] args[1].op \in {"amount", "normalizedAmount"}
                          -> "TokenAmountOverflowError"
                     [] OTHER -> "FeesOverflowError"
    /\ tick[1].value >= MIN_TICK /\ tick[1].value <= MAX_TICK
    /\ tick[1].value % tick[1].tickSpacing = 0
    /\ heap[1].amount >= 0 /\ heap[1].amount < 2 ^ AMOUNT_BITS
    /\ heap[1].amount % heap[1].token.unit = 0
    /\ FeeInRange(mkt[1].askFees) /\ FeeInRange(mkt[1].bidsFees)

\* a normalized amount that fits by itself but not times the unit was
\* rejected, the TokenAmount keeping the nonzero amount assigned before
C27_Witness ==
    /\ args # None /\ args[1].op = "normalizedAmount"
    /\ args[1].v = 65535 /\ args[1].err = "TokenAmountOverflowError"
    /\ heap[1].token.unit = 3
    /\ heap[1].amount = 21843

(***************************************************************************)
(* lib/market.ts: Market.fromOpenMarketResult                              *)
(***************************************************************************)
\* tokens.findIndex((token) => isAddressEqual(token.address, address)), the
\* index counted from 0, -1 when no token matches
findIndex(tokens, address) ==
    LET found == { i \in DOMAIN tokens : isAddressEqual(tokens[i].address, address) }
    IN  IF found = {} THEN -1
        ELSE (CHOOSE i \in found : \A j \in found : i <= j) - 1

\* Market.fromOpenMarketResult(result, tokens); undefined is None
fromOpenMarketResult(res, tokens) ==
    LET index0 == findIndex(tokens, res.market01.outboundToken)
        index1 == findIndex(tokens, res.market01.inboundToken)
        isReversed == index0 > index1
    IN  IF index0 = -1 \/ index1 = -1
        THEN Ok(None)
        ELSE Bind(Token_withUnit(tokens[index0 + 1], res.market01.outboundUnits),
                  LAMBDA token0:
             Bind(Token_withUnit(tokens[index1 + 1], res.market01.inboundUnits),
                  LAMBDA token1:
             Bind(IF isReversed
                  THEN Market_createSingle(token1, token0,
                                           res.market01.tickSpacing,
                                           Some(res.market10.fees),
                                           Some(res.market01.fees))
                  ELSE Market_createSingle(token0, token1,
                                           res.market01.tickSpacing,
                                           Some(res.market01.fees),
                                           Some(res.market10.fees)),
                  LAMBDA m: Ok(Some(m)))))

USDC == Val(Token_from(1, 6, "USDC", 1))

WETH == Val(Token_from(2, 18, "WETH", 1))

DAI == Val(Token_from(3, 18, "DAI", 1))

\* token lists, the token that is to be the quote defined first
OpenMarketTokens ==
    { <<USDC, WETH>>, <<USDC, DAI, WETH>>, <<DAI, WETH>>, <<USDC>> }

\* what VifReader.openMarkets returns for one market
OpenMarketResults ==
    { [market01 |-> [outboundToken |-> o, inboundToken |-> i,
                     outboundUnits |-> ou, inboundUnits |-> iu,
                     tickSpacing |-> 1, fees |-> f],
       market10 |-> [outboundToken |-> i, inboundToken |-> o,
                     outboundUnits |-> iu, inboundUnits |-> ou,
                     tickSpacing |-> 1, fees |-> 100]] :
        o \in {1, 2, 3}, i \in {1, 2, 3}, ou \in {1, 2}, iu \in {1, 3},
        f \in {0, 3000} }

InitOpenMarket ==
    /\ NoState
    /\ args \in { Some([result |-> r, tokens |-> t]) :
                    r \in OpenMarketResults, t \in OpenMarketTokens }
    /\ ret = None

FromOpenMarketResult ==
    /\ ret = None
    /\ ret' = Some(fromOpenMarketResult(args[1].result, args[1].tokens))
    /\ UNCHANGED <<stateVars, args>>

NextOpenMarket == FromOpenMarketResult

SpecOpenMarket == InitOpenMarket /\ [][NextOpenMarket]_vars

\* C22: as stated, the Market that fromOpenMarketResult returns has as quote
\* the token defined earlier in the tokens list and as base the one defined
\* later, whichever of them is the outbound token of market01, with askFees
\* the fees of the direction whose outbound token is the base and bidsFees
\* those of the other direction.
C22_EarlierTokenIsQuote ==
    ret # None /\ IsOk(ret[1]) /\ Val(ret[1]) # None
    => LET m == Val(ret[1])[1]
           r == args[1].result
           baseIs01 == isAddressEqual(m.base.token.address,
                                      r.market01.outboundToken)
       IN  /\ findIndex(args[1].tokens, m.quote.token.address)
                <= findIndex(args[1].tokens, m.base.token.address)
           /\ m.askFees = Some(IF baseIs01 THEN r.market01.fees
                               ELSE r.market10.fees)
           /\ m.bidsFees = Some(IF baseIs01 THEN r.market10.fees
                                ELSE r.market01.fees)

(***************************************************************************)
(* lib/book.ts: Book.setElementsFromPacked and grossSimulation             *)
(***************************************************************************)
HEAD_MASK == BitsOfHex(<<15, 15, 15, 15, 15, 15, 15, 15, 15, 15>>)

TAIL_MASK == BitsOfHex(<<15, 15, 15, 15, 15, 15, 15, 15, 15, 15>>)

OFFER_COUNT_MASK == BitsOfHex(<<15, 15, 15, 15, 15, 15, 15, 15, 15, 15>>)

TOTAL_GIVES_MASK ==
    BitsOfHex(<<15, 15, 15, 15, 15, 15, 15, 15, 15, 15, 15, 15, 15, 15, 15, 15>>)

INDEX_MASK == BitsOfHex(<<15, 15, 15, 15, 15, 15>>)

INDEX_SHIFT == 184

HEAD_SHIFT == 144

TAIL_SHIFT == 104

OFFER_COUNT_SHIFT == 64

TOTAL_GIVES_SHIFT == 0

\* the integer a bigint or number below 2^30 is
IntegerOf(x) == LowValue(x, 30)

\* unpackOfferListElement(offerList)
unpackOfferListElement(offerList) ==
    [head       |-> Number(BitAnd(ShiftRight(offerList, HEAD_SHIFT), HEAD_MASK)),
     tail       |-> Number(BitAnd(ShiftRight(offerList, TAIL_SHIFT), TAIL_MASK)),
     offerCount |-> Number(BitAnd(ShiftRight(offerList, OFFER_COUNT_SHIFT),
                                  OFFER_COUNT_MASK)),
     totalGives |-> BitAnd(ShiftRight(offerList, TOTAL_GIVES_SHIFT),
                           TOTAL_GIVES_MASK),
     index      |-> IntegerOf(Number(BitAnd(ShiftRight(offerList, INDEX_SHIFT),
                                            INDEX_MASK)))]

\* Tick.fromIndex(index, tickSpacing)
Tick_fromIndex(index, tickSpacing) ==
    Tick_fromValue((index - BigDiv(MAX_TICK, tickSpacing)) * tickSpacing,
                   tickSpacing)

\* elements.sort(...) leaving the elements as they come
sort_asGiven(elements) == elements

\* elements.sort((a, b) => a.index - b.index); Array.prototype.sort is stable
RECURSIVE sort(_)
sort(elements) ==
    IF elements = <<>> THEN <<>>
    ELSE LET a == Head(elements)
             sorted == sort(Tail(elements))
         IN  SelectSeq(sorted, LAMBDA b: b.index < a.index)
               \o <<a>> \o SelectSeq(sorted, LAMBDA b: b.index >= a.index)

\* .map<BookElement>((e) => ({ ...e, totalGives, tick })), the elements made
\* in order, the first error ending the call
RECURSIVE toBookElements(_, _)
toBookElements(semi, raw) ==
    IF raw = <<>> THEN Ok(<<>>)
    ELSE LET e == Head(raw)
             outboundToken == SemiMarket_outboundToken(semi.ba, semi.market).token
         IN  Bind(Token_amount(outboundToken,
                               IntegerOf(e.totalGives) * outboundToken.unit),
                  LAMBDA totalGives:
             Bind(Tick_fromIndex(e.index, semi.market.tickSpacing), LAMBDA t:
             Bind(toBookElements(semi, Tail(raw)), LAMBDA rest:
                  Ok(<< [head |-> e.head, tail |-> e.tail,
                         offerCount |-> e.offerCount, index |-> e.index,
                         totalGives |-> totalGives, tick |-> t] >> \o rest))))

\* the elements setElementsFromPacked assigns to this.elements
setElementsFromPacked(semi, packed) ==
    toBookElements(semi,
        sort([i \in DOMAIN packed |-> unpackOfferListElement(packed[i])]))

\* the offers grossSimulation passes to simulate
grossSimulation_offers(elements) ==
    [i \in DOMAIN elements |->
        [gives |-> elements[i].totalGives, tick |-> elements[i].tick]]

MaxElements == 3

\* a packed element: the index in bits 184-207, totalGives in the low bits,
\* every other bit as fill
PackedElement(index, gives, fill) ==
    [i \in Word |->
        IF i >= INDEX_SHIFT /\ i < INDEX_SHIFT + 24
        THEN (index \div 2 ^ (i - INDEX_SHIFT)) % 2
        ELSE IF i < OFFER_COUNT_SHIFT
        THEN (IF i < 8 THEN (gives \div 2 ^ i) % 2 ELSE 0)
        ELSE fill]

\* indices at the ends of the range of each tick spacing, and two words of
\* one index
PackedElements ==
    { PackedElement(k, 3, 0) : k \in {0, 1677721, 3355442, 16777214, 16777215} }
    \cup { PackedElement(0, 5, 1) }

RECURSIVE SeqsUpTo(_, _)
SeqsUpTo(S, k) ==
    IF k = 0 THEN { <<>> }
    ELSE LET shorter == SeqsUpTo(S, k - 1)
         IN  shorter \cup { Append(q, x) : q \in shorter, x \in S }

BookMarkets ==
    { [ba |-> "asks",
       market |-> Val(Market_createSingle(Val(Token_from(2, 18, "WETH", 2)),
                                          Val(Token_from(1, 6, "USDC", 1)),
                                          s, None, None))] : s \in {1, 5} }

InitBook ==
    /\ NoState
    /\ args \in { Some([market |-> m, packed |-> q]) :
                    m \in BookMarkets, q \in SeqsUpTo(PackedElements, MaxElements) }
    /\ ret = None

\* book.setElementsFromPacked(packed), then the offers of grossSimulation
SetElementsFromPacked ==
    /\ ret = None
    /\ LET r == setElementsFromPacked(args[1].market, args[1].packed)
       IN  ret' = Some([elements |-> r,
                        offers |-> IF IsOk(r) THEN grossSimulation_offers(Val(r))
                                   ELSE <<>>])
    /\ UNCHANGED <<stateVars, args>>

NextBook == SetElementsFromPacked

SpecBook == InitBook /\ [][NextBook]_vars

\* the bit of the index field, read off the word
IndexOfWord(w) == LowValue(Field(w, 184, 207), 24)

\* the number of positions of the sequence holding x
Count(q, x) == Cardinality({ i \in DOMAIN q : q[i] = x })

\* C25: whatever the order of the packed words, when every index gives a tick
\* in range setElementsFromPacked yields one element per word, in
\* non-decreasing index order, each with tick = (index - floor(MAX_TICK /
\* tickSpacing)) * tickSpacing and totalGives = the low 64 bits times the unit
\* of the outbound token, and the offers handed to simulate are these, in
\* ascending tick order; when some index gives a tick out of range the call
\* fails with TickOverflowError.
C25_ElementsSortedByIndex ==
    ret # None
    => LET packed == args[1].packed
           s == args[1].market.market.tickSpacing
           TickOf(w) == (IndexOfWord(w) - 8388607 \div s) * s
           r == ret[1].elements
       IN  IF \A i \in DOMAIN packed : TickOf(packed[i]) <= 8388607
           THEN /\ IsOk(r)
                /\ Len(Val(r)) = Len(packed)
                /\ \A i \in DOMAIN packed :
                      Count([j \in DOMAIN packed |-> IndexOfWord(packed[j])],
                            IndexOfWord(packed[i]))
                        = Count([j \in DOMAIN Val(r) |-> Val(r)[j].index],
                                IndexOfWord(packed[i]))
                /\ \A i \in DOMAIN Val(r) :
                      /\ Val(r)[i].tick.value
                           = (Val(r)[i].index - 8388607 \div s) * s
                      /\ Val(r)[i].tick.tickSpacing = s
                      /\ \E j \in DOMAIN packed :
                            /\ IndexOfWord(packed[j]) = Val(r)[i].index
                            /\ Val(r)[i].totalGives.amount
                                 = 2 * LowValue(packed[j], 8)
                /\ \A i, j \in DOMAIN Val(r) :
                      i < j => /\ Val(r)[i].index <= Val(r)[j].index
                               /\ ret[1].offers[i].tick.value
                                    <= ret[1].offers[j].tick.value
                /\ Len(ret[1].offers) = Len(packed)
                /\ \A i \in DOMAIN Val(r) :
                      /\ ret[1].offers[i].tick = Val(r)[i].tick
                      /\ ret[1].offers[i].gives = Val(r)[i].totalGives
           ELSE r = Throw("TickOverflowError")

\* three words given in descending index order came out ascending
C25_Witness ==
    /\ ret # None /\ IsOk(ret[1].elements)
    /\ Len(args[1].packed) = 3
    /\ IndexOfWord(args[1].packed[1]) > IndexOfWord(args[1].packed[2])
    /\ IndexOfWord(args[1].packed[2]) > IndexOfWord(args[1].packed[3])
    /\ ret[1].offers[1].tick.value < ret[1].offers[2].tick.value
    /\ ret[1].offers[2].tick.value < ret[1].offers[3].tick.value

(***************************************************************************)
(* router/actions/actions.ts: VifRouterActions.expectedAllowances          *)
(*                                                                         *)
(* The Map of allowances is the sequence of its values in insertion order. *)
(***************************************************************************)
\* amount instanceof Token: a Token has no amount
instanceofToken(x) == "amount" \notin DOMAIN x

\* addAmount(amount) on the allowances
addAmount(allowances, x) ==
    LET token == IF instanceofToken(x) THEN x ELSE x.token
        bigintAmount == IF instanceofToken(x) THEN 0 ELSE x.amount
        saved == { i \in DOMAIN allowances :
                     allowances[i].token.address = token.address }
    IN  IF saved # {}
        THEN LET i == CHOOSE k \in saved : TRUE
             IN  IF allowances[i].amount = 0 THEN Ok(allowances)
                 ELSE IF bigintAmount = 0
                 THEN Bind(TokenAmount_setAmount(allowances[i], 0), LAMBDA a:
                           Ok([allowances EXCEPT ![i] = a]))
                 ELSE Bind(TokenAmount_setAmount(allowances[i],
                               allowances[i].amount + bigintAmount), LAMBDA a:
                           Ok([allowances EXCEPT ![i] = a]))
        ELSE Bind(Token_withUnit(token, 1), LAMBDA t:
             Bind(Token_amount(t, bigintAmount), LAMBDA a:
                  Ok(Append(allowances, a))))

\* what the loop of expectedAllowances adds for one action
expectedAllowances_action(allowances, element) ==
    IF element.action = "ORDER_SINGLE"
    THEN LET inboundToken == SemiMarket_inboundToken(element.metadata.market.ba,
                                                     element.metadata.market.market)
         IN  addAmount(allowances,
                 IF Token_equals(element.metadata.fillVolume.token,
                                 inboundToken.token)
                 THEN element.metadata.fillVolume
                 ELSE inboundToken)
    ELSE IF element.action = "ORDER_MULTI"
    THEN IF element.metadata.markets = <<>> THEN Ok(allowances)
         ELSE LET first == element.metadata.markets[1]
                  sendToken == SemiMarket_inboundToken(first.ba, first.market).token
              IN  addAmount(allowances,
                      IF element.metadata.fillWants THEN sendToken
                      ELSE element.metadata.fillVolume)
    ELSE IF element.action = "LIMIT_SINGLE"
    THEN addAmount(allowances, element.metadata.gives)
    ELSE Ok(allowances)

\* expectedAllowances() of the actions listed
RECURSIVE expectedAllowances_from(_, _)
expectedAllowances_from(allowances, list) ==
    IF list = <<>> THEN Ok(allowances)
    ELSE Bind(expectedAllowances_action(allowances, Head(list)), LAMBDA a:
              expectedAllowances_from(a, Tail(list)))

expectedAllowances(list) == expectedAllowances_from(<<>>, list)

MaxListed == 2

\* a market order on one market
OrderSingleElement(semi, fillVolume) ==
    [action |-> "ORDER_SINGLE",
     metadata |-> [market |-> semi, fillVolume |-> fillVolume]]

\* a market order on a path, as orderMulti lists it
OrderMultiElement(markets, fillVolume) ==
    [action |-> "ORDER_MULTI",
     metadata |->
        [markets |-> markets, fillVolume |-> fillVolume,
         fillWants |-> Token_equals(fillVolume.token,
                           SemiMarket_outboundToken(markets[Len(markets)].ba,
                               markets[Len(markets)].market).token)]]

LimitSingleElement(semi, gives) ==
    [action |-> "LIMIT_SINGLE", metadata |-> [market |-> semi, gives |-> gives]]

\* orders and limit orders on the markets AB and BC, exact in and exact out,
\* and a settlement
ListedElements ==
    { OrderSingleElement(ABb, Val(Token_amount(PathToken(1, 1), 100))),
      OrderSingleElement(ABb, Val(Token_amount(PathToken(2, 1), 5))),
      OrderSingleElement(BCa, Val(Token_amount(PathToken(3, 1), 30))),
      OrderMultiElement(<<ABb, BCb>>, Val(Token_amount(PathToken(1, 1), 10))),
      OrderMultiElement(<<ABb, BCb>>, Val(Token_amount(PathToken(3, 1), 10))),
      LimitSingleElement(ABa, Val(Token_amount(PathToken(1, 1), 7))),
      LimitSingleElement(BCb, Val(Token_amount(PathToken(3, 1), 50))),
      [action |-> "SETTLE_ALL", metadata |-> [address |-> 1]] }

InitAllowances ==
    /\ NoState
    /\ args \in { Some([list |-> q]) : q \in SeqsUpTo(ListedElements, MaxListed) }
    /\ ret = None

ExpectedAllowances ==
    /\ ret = None
    /\ ret' = Some(expectedAllowances(args[1].list))
    /\ UNCHANGED <<stateVars, args>>

NextAllowances == ExpectedAllowances

SpecAllowances == InitAllowances /\ [][NextAllowances]_vars

\* the action is an order or a limit order
Spends(element) ==
    element.action \in {"ORDER_SINGLE", "ORDER_MULTI", "LIMIT_SINGLE"}

\* the token the action spends: the inbound token of the (first) market of an
\* order, the token given by a limit order
SpentAddress(element) ==
    CASE element.action = "ORDER_SINGLE"
           -> SemiMarket_inboundToken(element.metadata.market.ba,
                                      element.metadata.market.market).token.address
      [] element.action = "ORDER_MULTI"
           -> SemiMarket_inboundToken(element.metadata.markets[1].ba,
                  element.metadata.markets[1].market).token.address
      [] OTHER -> element.metadata.gives.token.address

\* the spend of the action is unknown: a market order filled in the token it
\* buys
SpendUnknown(element) ==
    /\ element.action \in {"ORDER_SINGLE", "ORDER_MULTI"}
    /\ element.metadata.fillVolume.token.address # SpentAddress(element)

KnownSpend(element) ==
    IF element.action = "LIMIT_SINGLE" THEN element.metadata.gives.amount
    ELSE element.metadata.fillVolume.amount

RECURSIVE SpendOf(_, _)
SpendOf(list, address) ==
    IF list = <<>> THEN 0
    ELSE (IF Spends(Head(list)) /\ SpentAddress(Head(list)) = address
          THEN KnownSpend(Head(list)) ELSE 0)
           + SpendOf(Tail(list), address)

\* C24: as stated, expectedAllowances returns exactly one entry for every
\* token address spent by an order or a limit order of the list and none for
\* any other; the amount of the entry is 0 exactly when an action spending
\* that token has an unknown spend (a market order whose fill volume is in the
\* token bought), wherever in the list it stands, and otherwise the sum of the
\* fill volumes and gives spending that token.
C24_AllowancePerSpentToken ==
    ret # None
    => LET list == args[1].list
           spent == { SpentAddress(list[i]) :
                        i \in { k \in DOMAIN list : Spends(list[k]) } }
           allowances == Val(ret[1])
       IN  /\ IsOk(ret[1])
           /\ { allowances[i].token.address : i \in DOMAIN allowances } = spent
           /\ Len(allowances) = Cardinality(spent)
           /\ \A i \in DOMAIN allowances :
                 allowances[i].amount
                   = IF \E k \in DOMAIN list :
                           /\ Spends(list[k])
                           /\ SpentAddress(list[k]) = allowances[i].token.address
                           /\ SpendUnknown(list[k])
                     THEN 0
                     ELSE SpendOf(list, allowances[i].token.address)

(***************************************************************************)
(* router/actions/parser/simulation.ts: parseSimulationResult              *)
(*                                                                         *)
(* An object is the record of the properties it has; a property it has not *)
(* reads as undefined.                                                     *)
(***************************************************************************)
Action_ORDER_SINGLE == 0

Action_FAILABLE_ORDER_SINGLE == 128

Action_LIMIT_SINGLE == 2

Action_FAILABLE_LIMIT_SINGLE == 130

Action_SETTLE_ALL == 7

Action_FAILABLE_SETTLE_ALL == 135

Action_WRAP_NATIVE == 10

FAILABLE_MASK == 128

\* (action & FAILABLE_MASK) === FAILABLE_MASK
isFailableAction(action) == (action \div FAILABLE_MASK) % 2 = 1

\* object.property
Property(object, property) ==
    IF property \in DOMAIN object THEN Some(object[property]) ELSE None

\* parseSingleActionSimulationResultOrderSingle; the metadata is the semi
\* market, the words of the return data are the uint256 of the tuple
parseSingleActionSimulationResultOrderSingle(element, words) ==
    LET inboundToken == SemiMarket_inboundToken(element.metadata.ba,
                                                element.metadata.market).token
        outboundToken == SemiMarket_outboundToken(element.metadata.ba,
                                                  element.metadata.market).token
    IN  Bind(Token_amount(inboundToken, words[1]), LAMBDA gave:
        Bind(Token_amount(outboundToken, words[2]), LAMBDA got:
        Bind(Token_withUnit(inboundToken, 1), LAMBDA feeToken:
        Bind(Token_amount(feeToken, words[3]), LAMBDA fee:
        Bind(Token_amount(NATIVE_TOKEN, words[4]), LAMBDA bounty:
             Ok([type |-> element.action,
                 data |-> Some([gave |-> gave, got |-> got, fee |-> fee,
                                bounty |-> bounty])]))))))

\* parseSingleActionSimulationResultLimitSingle
parseSingleActionSimulationResultLimitSingle(element, words) ==
    LET inboundToken == SemiMarket_inboundToken(element.metadata.market.ba,
                            element.metadata.market.market).token
    IN  Bind(Token_amount(inboundToken, words[2]), LAMBDA claimedReceived:
             Ok([type |-> element.action,
                 data |-> Some([offerId |-> words[1],
                                claimedReceived |-> claimedReceived])]))

\* parseSingleActionSimulationResultSuccess: the switch on element.action
parseSingleActionSimulationResultSuccess(element, words) ==
    IF element.action \in {Action_ORDER_SINGLE, Action_FAILABLE_ORDER_SINGLE}
    THEN parseSingleActionSimulationResultOrderSingle(element, words)
    ELSE IF element.action \in {Action_LIMIT_SINGLE, Action_FAILABLE_LIMIT_SINGLE}
    THEN parseSingleActionSimulationResultLimitSingle(element, words)
    ELSE Ok([type |-> element.action, data |-> None])

\* new FailedActionError(returnData, label)
FailedActionError(returnData, action) ==
    [name |-> "FailedActionError", returnData |-> returnData, action |-> action]

\* parseSingleActionSimulationResult(element, result)
parseSingleActionSimulationResult(element, dispatched) ==
    LET isFailable == isFailableAction(element.action)
    IN  IF ~isFailable /\ ~dispatched.success
        THEN Throw("Error: Action should not fail")
        ELSE IF ~dispatched.success
        THEN Ok([success |-> FALSE,
                 error |-> FailedActionError(dispatched.returnData,
                                             element.action)])
        ELSE Bind(parseSingleActionSimulationResultSuccess(
                      element, dispatched.returnData), LAMBDA res:
                  IF isFailable
                  THEN Ok([success |-> TRUE, result |-> res])
                  ELSE Ok(res))

\* returnData.map((result, index) => ...) from index k on
RECURSIVE parseSimulationResult_from(_, _, _)
parseSimulationResult_from(returnData, list, k) ==
    IF k > Len(returnData) THEN Ok(<<>>)
    ELSE IF k \notin DOMAIN list THEN Throw("Error: Action not found")
    ELSE Bind(parseSingleActionSimulationResult(list[k], returnData[k]),
              LAMBDA parsed:
         Bind(parseSimulationResult_from(returnData, list, k + 1), LAMBDA rest:
              Ok(<<parsed>> \o rest)))

parseSimulationResult(returnData, list) ==
    parseSimulationResult_from(returnData, list, 1)

MaxDispatched == 2

\* elements of the builder: the metadata of an order is its semi market, that
\* of a limit order its market and offer id
DispatchedElements ==
    { [action |-> a, metadata |-> ABb] :
        a \in {Action_ORDER_SINGLE, Action_FAILABLE_ORDER_SINGLE} }
    \cup { [action |-> a, metadata |-> [market |-> ABa, offerId |-> None]] :
             a \in {Action_LIMIT_SINGLE, Action_FAILABLE_LIMIT_SINGLE} }
    \cup { [action |-> a, metadata |-> PathToken(1, 1)] :
             a \in {Action_SETTLE_ALL, Action_FAILABLE_SETTLE_ALL} }
    \cup { [action |-> Action_WRAP_NATIVE, metadata |-> None] }

\* what the router returns for one action
DispatchResults ==
    { [success |-> b, returnData |-> <<3, 4, 1, 0>>] : b \in BOOLEAN }

InitParseSimulation ==
    /\ NoState
    /\ args \in { Some([returnData |-> d, list |-> q]) :
                    d \in SeqsUpTo(DispatchResults, MaxDispatched),
                    q \in SeqsUpTo(DispatchedElements, MaxDispatched) }
    /\ ret = None

ParseSimulationResult ==
    /\ ret = None
    /\ ret' = Some(parseSimulationResult(args[1].returnData, args[1].list))
    /\ UNCHANGED <<stateVars, args>>

NextParseSimulation == ParseSimulationResult

SpecParseSimulation == InitParseSimulation /\ [][NextParseSimulation]_vars

\* C23: as stated, parseSimulationResult returns one entry per dispatch
\* result, in the order of the actions, each with the type of its action and
\* a success flag: for a dispatch that succeeded success is true, error is
\* undefined and data is the decoded result (undefined for wrap, settle, take
\* and sweep); for a failable action whose dispatch failed success is false
\* and error is a FailedActionError.
C23_EntryPerDispatchResult ==
    ret # None /\ IsOk(ret[1])
    => LET parsed == Val(ret[1])
           returnData == args[1].returnData
           list == args[1].list
       IN  /\ Len(parsed) = Len(returnData)
           /\ \A i \in DOMAIN parsed :
                 /\ Property(parsed[i], "type") = Some(list[i].action)
                 /\ Property(parsed[i], "success") = Some(returnData[i].success)
                 /\ returnData[i].success
                      => /\ Property(parsed[i], "error") = None
                         /\ Property(parsed[i], "data")
                              = Some(Val(parseSingleActionSimulationResultSuccess(
                                             list[i], returnData[i].returnData)).data)
                 /\ ~returnData[i].success
                      => /\ Property(parsed[i], "error") # None
                         /\ parsed[i].error.name = "FailedActionError"

(***************************************************************************)
(* router/actions/parser/receipt.ts: parseFromLogs.  The events are those  *)
(* parseEventLogs decoded, records [eventName, args]; each parser returns  *)
(* the events left after its splice and the result it built                *)
(***************************************************************************)

Action_ORDER_MULTI == 1

Action_CLAIM == 3

Action_FAILABLE_CLAIM == 131

Action_CANCEL == 4

Action_FAILABLE_CANCEL == 132

isCancelOrClaimElement(element) ==
    element.action \in {Action_CANCEL, Action_FAILABLE_CANCEL,
                        Action_CLAIM, Action_FAILABLE_CLAIM}

isLimitOrderElement(element) ==
    element.action \in {Action_LIMIT_SINGLE, Action_FAILABLE_LIMIT_SINGLE}

isSingleOrderElement(element) ==
    element.action \in {Action_ORDER_SINGLE, Action_FAILABLE_ORDER_SINGLE}

isMultiOrderElement(element) == element.action = Action_ORDER_MULTI

\* events.findIndex over the positions that pass the test; 0 where the code
\* has -1, positions counted from 1
firstOf(positions) ==
    IF positions = {} THEN 0
    ELSE CHOOSE i \in positions : \A j \in positions : i <= j

\* events.splice(index, count): the elements taken out and those left
splice(events, index, count) ==
    LET upto == Min(Len(events), index + count - 1)
    IN  [taken |-> SubSeq(events, index, upto),
         left  |-> SubSeq(events, 1, index - 1)
                   \o SubSeq(events, upto + 1, Len(events))]

\* Array.prototype.reverse
reverse(list) == [i \in 1..Len(list) |-> list[Len(list) + 1 - i]]

\* { type, success: false, data: undefined }
NotFound(events, element) ==
    [events |-> events,
     result |-> [type |-> element.action, success |-> FALSE, data |-> None]]

\* the OrderResult of one MarketOrder event on a semi market
OrderResultOf(sm, order) ==
    LET inTok  == SemiMarket_inboundToken(sm.ba, sm.market).token
        outTok == SemiMarket_outboundToken(sm.ba, sm.market).token
    IN  [gave   |-> Val(Token_amount(inTok, order.args.gave)),
         got    |-> Val(Token_amount(outTok, order.args.got)),
         fee    |-> Val(Token_amount(Val(Token_withUnit(inTok, 1)),
                                     order.args.fee)),
         bounty |-> Val(Token_amount(NATIVE_TOKEN, order.args.bounty))]

parseSingleOrderFromEvents(events, element) ==
    LET index == firstOf({ i \in DOMAIN events :
                     /\ events[i].eventName = "MarketOrder"
                     /\ events[i].args.market = SemiMarket_key(element.metadata) })
    IN  IF index = 0 THEN NotFound(events, element)
        ELSE [events |-> splice(events, index, 1).left,
              result |-> [type |-> element.action, success |-> TRUE,
                          data |-> Some(OrderResultOf(element.metadata,
                                                      events[index]))]]

RECURSIVE isSeriesOfMarketOrders(_, _, _, _)
isSeriesOfMarketOrders(events, markets, eventIndex, marketIndex) ==
    IF marketIndex > Len(markets) THEN TRUE
    ELSE IF eventIndex > Len(events) THEN FALSE
    ELSE IF /\ events[eventIndex].eventName = "MarketOrder"
            /\ events[eventIndex].args.market
                   = SemiMarket_key(markets[marketIndex])
    THEN isSeriesOfMarketOrders(events, markets,
                                eventIndex + 1, marketIndex + 1)
    ELSE FALSE

\* the hops pushed in the order of the events, hop k on markets[k]
hopsOf(markets, orders) ==
    [k \in 1..Len(orders) |->
        [market |-> markets[k], seen |-> TRUE]
        @@ OrderResultOf(markets[k], orders[k])]

\* bounty.amount += order.args.bounty, over the orders from position k
RECURSIVE bountyOf(_, _, _)
bountyOf(bounty, orders, k) ==
    IF k > Len(orders) THEN bounty
    ELSE bountyOf(
             TokenAmount_set_amount(bounty,
                 bounty.amount + orders[k].args.bounty).this,
             orders, k + 1)

\* the top level amounts read from the first and the last event of the run
topLevel_ofEvents(path, orders, hops) ==
    LET inTok  == SemiMarket_inboundToken(path[1].ba, path[1].market).token
        outTok == SemiMarket_outboundToken(path[Len(path)].ba,
                                           path[Len(path)].market).token
    IN  [gave |-> Val(Token_amount(inTok, orders[1].args.gave)),
         got  |-> Val(Token_amount(outTok, orders[Len(orders)].args.got)),
         fee  |-> Val(Token_amount(Val(Token_withUnit(inTok, 1)),
                                   orders[1].args.fee))]

parseMultiOrderFromEvents(events, element) ==
    LET path    == element.metadata.markets
        markets == IF element.metadata.fillWants THEN reverse(path) ELSE path
        index   == firstOf({ i \in DOMAIN events :
                       isSeriesOfMarketOrders(events, markets, i, 1) })
    IN  IF index = 0 \/ path = <<>> THEN NotFound(events, element)
        ELSE LET orders == splice(events, index, Len(markets)).taken
                 pushed == hopsOf(markets, orders)
                 hops   == IF element.metadata.fillWants
                           THEN reverse(pushed) ELSE pushed
                 bounty == bountyOf(Val(Token_amount(NATIVE_TOKEN, 0)),
                                    orders, 1)
             IN  [events |-> splice(events, index, Len(markets)).left,
                  result |->
                      [type |-> element.action, success |-> TRUE,
                       data |-> Some(topLevel_ofEvents(path, orders, hops)
                                     @@ [bounty |-> bounty, hops |-> hops])]]

parseOfferFromEvents(events, element) ==
    LET sm    == element.metadata.market
        index == firstOf({ i \in DOMAIN events :
                     \/ events[i].eventName = "NewOffer"
                     \/ /\ events[i].eventName = "OfferUpdated"
                        /\ events[i].args.market = SemiMarket_key(sm)
                        /\ Some(events[i].args.offerId)
                               = element.metadata.offerId })
        inTok == SemiMarket_inboundToken(sm.ba, sm.market).token
    IN  IF index = 0 THEN NotFound(events, element)
        ELSE LET claimed == Property(events[index].args, "claimedReceived")
             IN  [events |-> splice(events, index, 1).left,
                  result |->
                      [type |-> element.action, success |-> TRUE,
                       data |-> Some(
                           [offerId |-> events[index].args.offerId,
                            claimedReceived |->
                                Val(Token_amount(inTok,
                                    IF claimed # None THEN claimed[1]
                                    ELSE 0))])]]

parseClaimCancelFromEvents(events, element) ==
    LET sm     == element.metadata.market
        index  == firstOf({ i \in DOMAIN events :
                      \/ events[i].eventName = "OfferCancelled"
                      \/ events[i].eventName = "OfferClaimed" })
        inTok  == SemiMarket_inboundToken(sm.ba, sm.market).token
        outTok == SemiMarket_outboundToken(sm.ba, sm.market).token
    IN  IF index = 0 THEN NotFound(events, element)
        ELSE [events |-> splice(events, index, 1).left,
              result |->
                  [type |-> element.action, success |-> TRUE,
                   data |-> Some(
                       [inbound   |-> Val(Token_amount(inTok,
                                          events[index].args.inbound)),
                        outbound  |-> Val(Token_amount(outTok,
                                          events[index].args.outbound)),
                        provision |-> Val(Token_amount(NATIVE_TOKEN,
                                          events[index].args.provision))])]]

parseActionFromEvents(events, element) ==
    IF isSingleOrderElement(element)
    THEN parseSingleOrderFromEvents(events, element)
    ELSE IF isLimitOrderElement(element)
    THEN parseOfferFromEvents(events, element)
    ELSE IF isCancelOrClaimElement(element)
    THEN parseClaimCancelFromEvents(events, element)
    ELSE IF isMultiOrderElement(element)
    THEN parseMultiOrderFromEvents(events, element)
    ELSE [events |-> events,
          result |-> [type |-> element.action, success |-> TRUE,
                      data |-> None]]

\* the loop of parseFromLogs from action k, over the events still unused
RECURSIVE parseFromLogs_from(_, _, _)
parseFromLogs_from(events, list, k) ==
    IF k > Len(list) THEN <<>>
    ELSE LET parsed == parseActionFromEvents(events, list[k])
         IN  <<parsed.result>> \o parseFromLogs_from(parsed.events, list, k + 1)

parseFromLogs(logs, list) == parseFromLogs_from(logs, list, 1)

MaxLogs == 3

MaxParsed == 2

\* what the contract emits: a cancellation of offer 1 of AB.asks, a claim of
\* offer 2 of BC.asks, a new offer 7 on BC.asks, an update of offer 1 of
\* AB.asks, and the market orders of the two hops of a path
LogEvents ==
    { [eventName |-> "OfferCancelled",
       args |-> [market |-> SemiMarket_key(ABa), offerId |-> 1,
                 inbound |-> 11, outbound |-> 5, provision |-> 0]],
      [eventName |-> "OfferClaimed",
       args |-> [market |-> SemiMarket_key(BCa), offerId |-> 2,
                 inbound |-> 22, outbound |-> 0, provision |-> 0]],
      [eventName |-> "NewOffer",
       args |-> [market |-> SemiMarket_key(BCa), offerId |-> 7]],
      [eventName |-> "OfferUpdated",
       args |-> [market |-> SemiMarket_key(ABa), offerId |-> 1,
                 claimedReceived |-> 4]],
      [eventName |-> "MarketOrder",
       args |-> [market |-> SemiMarket_key(ABb),
                 gave |-> 10, got |-> 20, fee |-> 1, bounty |-> 0]],
      [eventName |-> "MarketOrder",
       args |-> [market |-> SemiMarket_key(BCb),
                 gave |-> 20, got |-> 30, fee |-> 2, bounty |-> 10]] }

\* the elements of the builder: cancels and a claim of offers, a new and an
\* edited limit order, a single order, a path in both fill directions, and
\* an action no event belongs to
LoggedElements ==
    { [action |-> Action_FAILABLE_CANCEL,
       metadata |-> [market |-> ABa, offerId |-> 9]],
      [action |-> Action_CANCEL,
       metadata |-> [market |-> ABa, offerId |-> 1]],
      [action |-> Action_CLAIM,
       metadata |-> [market |-> BCa, offerId |-> 2]],
      [action |-> Action_FAILABLE_LIMIT_SINGLE,
       metadata |-> [market |-> ABa, offerId |-> None]],
      [action |-> Action_LIMIT_SINGLE,
       metadata |-> [market |-> ABa, offerId |-> Some(1)]],
      [action |-> Action_ORDER_SINGLE, metadata |-> ABb],
      [action |-> Action_ORDER_MULTI,
       metadata |-> [markets |-> <<ABb, BCb>>, fillWants |-> FALSE]],
      [action |-> Action_ORDER_MULTI,
       metadata |-> [markets |-> <<ABb, BCb>>, fillWants |-> TRUE]],
      [action |-> Action_WRAP_NATIVE, metadata |-> None] }

InitParseLogs ==
    /\ NoState
    /\ args \in { Some([logs |-> l, list |-> q]) :
                    l \in SeqsUpTo(LogEvents, MaxLogs),
                    q \in SeqsUpTo(LoggedElements, MaxParsed) }
    /\ ret = None

ParseFromLogs ==
    /\ ret = None
    /\ ret' = Some(parseFromLogs(args[1].logs, args[1].list))
    /\ UNCHANGED <<stateVars, args>>

NextParseLogs == ParseFromLogs

SpecParseLogs == InitParseLogs /\ [][NextParseLogs]_vars

\* an event a cancel or claim emits for the offer of the element
EmittedByClaimCancel(event, element) ==
    /\ event.eventName \in {"OfferCancelled", "OfferClaimed"}
    /\ event.args.market = SemiMarket_key(element.metadata.market)
    /\ event.args.offerId = element.metadata.offerId

\* an event a limit order emits: a new offer on its market, or the update of
\* its offer
EmittedByLimit(event, element) ==
    /\ event.args.market = SemiMarket_key(element.metadata.market)
    /\ \/ event.eventName = "NewOffer"
       \/ /\ event.eventName = "OfferUpdated"
          /\ Some(event.args.offerId) = element.metadata.offerId

\* C28: a cancel, claim or limit result reported as a success carries the
\* data of an event of the logs on the market of its action (with its offer
\* id for a cancel, a claim or an update), and an action none of whose
\* events is in the logs is reported with success = false, whatever the
\* actions before it emitted
C28_EventsAttributedToTheirAction ==
    (ret # None) =>
        LET logs   == args[1].logs
            list   == args[1].list
            parsed == ret[1]
        IN  \A i \in DOMAIN list :
                /\ isCancelOrClaimElement(list[i]) =>
                     /\ parsed[i].success =>
                          \E j \in DOMAIN logs :
                              /\ EmittedByClaimCancel(logs[j], list[i])
                              /\ parsed[i].data[1].inbound.amount
                                     = logs[j].args.inbound
                     /\ (\A j \in DOMAIN logs :
                             ~EmittedByClaimCancel(logs[j], list[i]))
                          => ~parsed[i].success
                /\ isLimitOrderElement(list[i]) =>
                     /\ parsed[i].success =>
                          \E j \in DOMAIN logs :
                              /\ EmittedByLimit(logs[j], list[i])
                              /\ parsed[i].data[1].offerId
                                     = logs[j].args.offerId
                     /\ (\A j \in DOMAIN logs :
                             ~EmittedByLimit(logs[j], list[i]))
                          => ~parsed[i].success

\* the sum of the bounties of the hops
RECURSIVE SumOfBounties(_, _)
SumOfBounties(hops, k) ==
    IF k > Len(hops) THEN 0
    ELSE hops[k].bounty.amount + SumOfBounties(hops, k + 1)

\* C29: a multi order found in the logs lists its hops in path order, its
\* gave and fee are those of the hop on the first market of the path, its
\* got that of the hop on the last market, and its bounty the sum of the
\* bounties of the hops, for fillWants true and false alike
C29_TopLevelFromFirstAndLastHop ==
    (ret # None) =>
        LET list   == args[1].list
            parsed == ret[1]
        IN  \A i \in DOMAIN list :
                (isMultiOrderElement(list[i]) /\ parsed[i].success) =>
                    LET path == list[i].metadata.markets
                        data == parsed[i].data[1]
                        hops == data.hops
                    IN  /\ Len(hops) = Len(path)
                        /\ \A k \in DOMAIN hops : hops[k].market = path[k]
                        /\ data.gave = hops[1].gave
                        /\ data.fee = hops[1].fee
                        /\ data.got = hops[Len(hops)].got
                        /\ data.bounty.amount = SumOfBounties(hops, 1)

=============================================================================
